---------------------------- MODULE Spec2Model ----------------------------
(***************************************************************************)
(* The local-first data layer of fbb-coach: the zustand store of           *)
(* src/src/store/useStore.ts (programs, workout session, sync passes),     *)
(* the sync client of src/src/services/api.ts, and the remote store of     *)
(* src/server/routes/sync.js over src/server/db/index.js.                  *)
(*                                                                         *)
(* Conventions.  JavaScript null/undefined is Null (the empty function);   *)
(* an object is a record, an optional field is a field that may be absent  *)
(* from the record's domain, and the spread {...a, ...b} is Spread(a, b).  *)
(* An ISO timestamp is the clock reading it was formatted from; 0 stands   *)
(* for "no timestamp" (lastSynced = null).  uuidv4() hands out nextId.     *)
(***************************************************************************)
EXTENDS Integers, Sequences, FiniteSets, TLC

VARIABLES
    programs,        \* [device -> Seq(Program)]            useStore.ts:60
    activeProgram,   \* [device -> Program or Null]         useStore.ts:61
    workoutLogs,     \* [device -> Seq(WorkoutLog)]         useStore.ts:113
    currentWorkout,  \* [device -> WorkoutLog or Null]      useStore.ts:114
    syncEnabled,     \* [device -> BOOLEAN]                 useStore.ts:427
    isSyncing,       \* [device -> BOOLEAN]                 useStore.ts:428
    lastSynced,      \* [device -> time, 0 = null]          useStore.ts:429
    syncError,       \* [device -> string, NoError = null]  useStore.ts:430
    passes,          \* [device -> set of in-flight async sync calls]
    clock,           \* [device -> the device's Date.now()]
    deviceId,        \* [device -> the X-Device-Id it sends] api.ts:7
    nextId,          \* the next value uuidv4() returns
    net,             \* fire-and-forget requests sent and not yet handled
    srvPrograms,     \* rows of table programs                schema.sql:15
    srvWorkouts,     \* rows of table workout_logs (+ sets)   schema.sql:56
    srvNow,          \* the database's NOW()
    lastOp,          \* the operation the last step performed (observation only)
    dirty,           \* [device -> ids of the programs and logs added or changed
                     \*  locally while a sync call of the device is in flight]
    script,          \* [device -> the calls since startWorkout, while they follow
                     \*  start, completeSet of each set once, finish; else Null]
    mergeLocal,      \* mergeData's argument local   (merge specification)
    mergeRemote,     \* mergeData's argument remote  (merge specification)
    mergeResult,     \* mergeData's result           (merge specification)
    stats,           \* what getStats last returned, or Null
    conversations,   \* [device -> Seq(Conversation)]       useStore.ts:197
    activeConversationId, \* [device -> id or Null]         useStore.ts:198
    chatMessages,    \* [device -> Seq(ChatMessage)]        useStore.ts:199
    notArray,        \* [device -> the fields among programs, workoutLogs and
                     \*  chatMessages whose value is not an array; the sequence
                     \*  kept for such a field is then without meaning]
    durable,         \* [device -> the JSON text under 'fbb-coach-storage' in
                     \*  localStorage, as the value it parses to] useStore.ts:557
    mounted,         \* [device -> the Tracker page is mounted]
    elapsedTime,     \* [device -> Tracker's elapsedTime]    Tracker.tsx:32
    restTimer,       \* [device -> Tracker's restTimer]      Tracker.tsx:36
    restTimerActive, \* [device -> Tracker's restTimerActive] Tracker.tsx:37
    restDuration     \* [device -> Tracker's restDuration]   Tracker.tsx:38

storeVars == <<programs, activeProgram, workoutLogs, currentWorkout>>
syncVars  == <<syncEnabled, isSyncing, lastSynced, syncError, passes>>
envVars   == <<clock, deviceId, nextId>>
srvVars   == <<srvPrograms, srvWorkouts, srvNow>>
mergeVars == <<mergeLocal, mergeRemote, mergeResult, stats>>
obsVars   == <<script, dirty>>
chatVars  == <<conversations, activeConversationId, chatMessages>>
pageVars  == <<mounted, elapsedTime, restTimer, restTimerActive, restDuration>>
vars == <<storeVars, syncVars, envVars, srvVars, net, lastOp, obsVars, mergeVars,
          chatVars, notArray, durable, pageVars>>

---------------------------------------------------------------------------
(* Bounds of the exploration *)

MaxId == 4
MaxTime == 3
MaxSets == 2
MaxLogs == 2
MaxPrograms == 2
MaxNet == 1
MaxPasses == 2
MaxRest == 2
MaxStatLogs == 3
MaxStamp == 9
MaxAdded == 2
MaxInFlight == 2

Devices == {"A", "B"}
Users == {"u1", "u2"}
Names == {"n1", "n2"}
Reps == {5, 8}
Weights == {100}
Rpes == {7}
TemplateIds == {-1, -2}

Null == <<>>
NoError == "null"
NoTime == 0

---------------------------------------------------------------------------
(* JavaScript helpers *)

\* {...a, ...b}
Spread(a, b) ==
    [f \in (DOMAIN a) \cup (DOMAIN b) |-> IF f \in DOMAIN b THEN b[f] ELSE a[f]]

\* the index of the first element of s whose id is id, 0 when there is none
FirstIndex(s, id) ==
    LET I == {i \in DOMAIN s : s[i].id = id}
    IN  IF I = {} THEN 0 ELSE CHOOSE i \in I : \A j \in I : i <= j

\* array.find(x => x.id === id): the first match, or undefined
FindById(s, id) == IF FirstIndex(s, id) = 0 THEN Null ELSE s[FirstIndex(s, id)]

\* array.filter(x => x.id !== id)
RECURSIVE WithoutId(_, _)
WithoutId(s, id) ==
    IF s = <<>> THEN <<>>
    ELSE (IF Head(s).id # id THEN <<Head(s)>> ELSE <<>>) \o WithoutId(Tail(s), id)

Range(s) == {s[i] : i \in DOMAIN s}
IdsOf(s) == {s[i].id : i \in DOMAIN s}

\* new Date() on device d: the clock never runs backwards; two readings may agree
NowSet(d) == {t \in {clock[d], clock[d] + 1} : t <= MaxTime}

\* obj?.id || null
IdOrNull(p) == IF p = Null THEN Null ELSE <<p.id>>

\* the fire-and-forget request of a mutation, sent only when sync is enabled
\* (syncApi.x(...).catch(console.error): the result is never read)
Send(d, msgs) == IF syncEnabled[d] THEN net \cup msgs ELSE net
CanSend(d) == syncEnabled[d] => Cardinality(net) < MaxNet

\* JSON.parse(JSON.stringify(w)) of a workout log: a key whose value is
\* undefined is left out of the text (programId when startWorkout was given
\* none, Tracker.tsx:116); the other values of a log are written and read back
DropUndefined(w) ==
    IF "programId" \in DOMAIN w /\ w.programId = Null
    THEN [f \in DOMAIN w \ {"programId"} |-> w[f]]
    ELSE w
JsonLogs(ws) == [i \in DOMAIN ws |-> DropUndefined(ws[i])]
JsonWorkout(w) == IF w = Null THEN Null ELSE DropUndefined(w)

\* a faulty partialize that leaves the session in progress out: C15 must
\* not survive it
PartializeNoWorkout(d) ==
    [programs |-> programs[d],
     activeProgram |-> activeProgram[d],
     workoutLogs |-> workoutLogs[d],
     conversations |-> conversations[d],
     activeConversationId |-> activeConversationId[d],
     currentWorkout |-> Null,
     notArray |-> notArray[d] \ {"chatMessages"}]

\* partialize (useStore.ts:558-566): the part of the state that is persisted;
\* notArray goes with the values of programs and workoutLogs
Partialize(d) ==
    [programs |-> programs[d],
     activeProgram |-> activeProgram[d],
     workoutLogs |-> workoutLogs[d],
     conversations |-> conversations[d],
     activeConversationId |-> activeConversationId[d],
     currentWorkout |-> currentWorkout[d],
     notArray |-> notArray[d] \ {"chatMessages"}]

\* the text persist writes to localStorage on every set(), as what
\* JSON.parse reads back from it
JsonState(st) ==
    [st EXCEPT !.workoutLogs = JsonLogs(@), !.currentWorkout = JsonWorkout(@)]
Persist(d) == durable' = [durable EXCEPT ![d] = JsonState(Partialize(d)')]

---------------------------------------------------------------------------
(* Programs: useStore.ts:63-110 *)

\* Partial<Program> as updateProgram receives it
\* (a name, an id of a program of the list, or both)
ProgramPartials == UNION {[D -> Names] : D \in SUBSET {"name"}}
ProgramUpdates(d) ==
    ProgramPartials
    \cup {Spread(u, [id |-> i]) : u \in ProgramPartials, i \in IdsOf(programs[d])}

\* the ids a caller may name: those of the list, and one that matches nothing
NoId == 0
KnownIds(s) == IdsOf(s) \cup {NoId}

\* addProgram's newProgram
NewProgram(programData, id, t) ==
    Spread(programData, [id |-> id, updatedAt |-> t])

\* updateProgram's state.programs.map(...)
UpdatedPrograms(ps, id, updates, t) ==
    [i \in DOMAIN ps |->
        IF ps[i].id = id
        THEN Spread(Spread(ps[i], updates), [updatedAt |-> t])
        ELSE ps[i]]

\* deleteProgram's state.programs.filter(...)
RemainingPrograms(ps, id) == WithoutId(ps, id)

\* Observation: ids touched by a local mutation while a sync call is in flight
InFlight(d) == {q \in passes[d] : q.pc \in {"fetch", "fetched", "push", "pushed"}}
Touched(d, ids) == IF InFlight(d) # {} THEN [dirty EXCEPT ![d] = @ \cup ids] ELSE dirty

SetActiveProgram(d) ==
    \E program \in Range(programs[d]) \cup {Null} :
        /\ CanSend(d)
        /\ activeProgram' = [activeProgram EXCEPT ![d] = program]
        /\ net' = Send(d, {[type |-> "setActive", user |-> deviceId[d],
                            pid |-> IdOrNull(program)]})
        /\ lastOp' = [op |-> "setActiveProgram", dev |-> d]
        /\ UNCHANGED <<programs, workoutLogs, currentWorkout, syncVars, envVars,
                       srvVars, obsVars, mergeVars, chatVars, notArray,
                       pageVars>>
        /\ Persist(d)

AddProgram(d) ==
    \E name \in Names, t \in NowSet(d) :
        /\ CanSend(d)
        /\ nextId <= MaxId
        /\ Len(programs[d]) < MaxPrograms
        /\ LET newProgram == NewProgram([name |-> name], nextId, t)
           IN  /\ programs' = [programs EXCEPT ![d] = Append(@, newProgram)]
               /\ net' = Send(d, {[type |-> "saveProgram", user |-> deviceId[d],
                                   program |-> newProgram]})
        /\ nextId' = nextId + 1
        /\ clock' = [clock EXCEPT ![d] = t]
        /\ dirty' = Touched(d, {nextId})
        /\ lastOp' = [op |-> "addProgram", dev |-> d]
        /\ UNCHANGED <<activeProgram, workoutLogs, currentWorkout, syncVars,
                       deviceId, srvVars, script, mergeVars, chatVars, notArray,
                       pageVars>>
        /\ Persist(d)

\* updateProgram (useStore.ts:86-99)
UpdateProgramStore(d) ==
    \E id \in KnownIds(programs[d]), updates \in ProgramUpdates(d), t \in NowSet(d) :
        /\ LET after == UpdatedPrograms(programs[d], id, updates, t)
               program == FindById(after, id)
           IN  /\ programs' = [programs EXCEPT ![d] = after]
               /\ net' = IF program = Null THEN net
                         ELSE Send(d, {[type |-> "saveProgram", user |-> deviceId[d],
                                        program |-> program]})
        /\ clock' = [clock EXCEPT ![d] = t]
        /\ dirty' = Touched(d, {UpdatedPrograms(programs[d], id, updates, t)[i].id :
                                   i \in {j \in DOMAIN programs[d] : programs[d][j].id = id}})
        /\ lastOp' = [op |-> "updateProgram", dev |-> d, id |-> id]
        /\ UNCHANGED <<activeProgram, workoutLogs, currentWorkout, syncVars,
                       deviceId, nextId, srvVars, script, mergeVars, chatVars, notArray,
                       pageVars>>
        /\ Persist(d)

\* updateProgram, at most MaxNet requests in flight
UpdateProgram(d) == CanSend(d) /\ UpdateProgramStore(d)

\* deleteProgram (useStore.ts:101-110)
DeleteProgramStore(d) ==
    \E id \in KnownIds(programs[d]) :
        /\ programs' = [programs EXCEPT ![d] = RemainingPrograms(@, id)]
        /\ activeProgram' = [activeProgram EXCEPT ![d] =
                IF @ # Null /\ @.id = id THEN Null ELSE @]
        /\ net' = Send(d, {[type |-> "deleteProgram", user |-> deviceId[d],
                            pid |-> <<id>>]})
        /\ dirty' = [dirty EXCEPT ![d] = @ \ {id}]
        /\ lastOp' = [op |-> "deleteProgram", dev |-> d]
        /\ UNCHANGED <<workoutLogs, currentWorkout, syncVars, envVars, srvVars,
                       script, mergeVars, chatVars, notArray,
                       pageVars>>
        /\ Persist(d)

\* deleteProgram, at most MaxNet requests in flight
DeleteProgram(d) == CanSend(d) /\ DeleteProgramStore(d)

---------------------------------------------------------------------------
(* Workout session: useStore.ts:116-194 *)

Notes == {"good"}
Ratings == {4}

\* the prescribed sets startWorkout receives: a WorkoutDay's exercises
TemplateSets == [id : TemplateIds, completed : BOOLEAN]
Templates == UNION {[1..n -> TemplateSets] : n \in 0..MaxSets}

\* startWorkout's workout; uuidv4() gives id to the log and id+1.. to its sets
\* a faulty startWorkout that keeps the template's completed flags
StartedWorkoutKeepFlag(programId, sets, id, t) ==
    [id |-> id,
     programId |-> programId,
     date |-> t,
     duration |-> 0,
     sets |-> [i \in DOMAIN sets |-> Spread(sets[i], [id |-> id + i])],
     completed |-> FALSE]

StartedWorkout(programId, sets, id, t) ==
    [id |-> id,
     programId |-> programId,
     date |-> t,
     duration |-> 0,
     sets |-> [i \in DOMAIN sets |->
                 Spread(sets[i], [id |-> id + i, completed |-> FALSE])],
     completed |-> FALSE]

\* a faulty completeSet that records the set's values but leaves its flag:
\* C9 must not survive it
CompletedSetsUnflagged(sets, setId, actualReps, actualWeight, rpe) ==
    [i \in DOMAIN sets |->
        IF sets[i].id = setId
        THEN Spread(sets[i], [actualReps |-> actualReps, actualWeight |-> actualWeight,
                              rpe |-> rpe])
        ELSE sets[i]]

\* completeSet's sets.map(...)
CompletedSets(sets, setId, actualReps, actualWeight, rpe) ==
    [i \in DOMAIN sets |->
        IF sets[i].id = setId
        THEN Spread(sets[i], [actualReps |-> actualReps, actualWeight |-> actualWeight,
                              rpe |-> rpe, completed |-> TRUE])
        ELSE sets[i]]

\* a faulty uncompleteSet that also forgets the set's place in the list
\* (moves it to the end): C14 must not survive it
UncompletedSetsMoved(sets, setId) ==
    LET i == FirstIndex(sets, setId)
    IN  IF i = 0 THEN sets
        ELSE Append(WithoutId(sets, setId), Spread(sets[i], [completed |-> FALSE]))

\* a faulty uncompleteSet that clears the recorded actuals with the flag
UncompletedSetsCleared(sets, setId) ==
    [i \in DOMAIN sets |->
        IF sets[i].id = setId THEN [id |-> sets[i].id, completed |-> FALSE] ELSE sets[i]]

\* uncompleteSet's sets.map(...)
UncompletedSets(sets, setId) ==
    [i \in DOMAIN sets |->
        IF sets[i].id = setId THEN Spread(sets[i], [completed |-> FALSE]) ELSE sets[i]]

\* a faulty finishWorkout that logs the workout under another id: C10 must
\* not survive it
CompletedWorkoutRenumbered(w, notes, rating, t) ==
    Spread(w, [id |-> w.id + 1, notes |-> notes, rating |-> rating, completed |-> TRUE,
               duration |-> t - w.date])

\* finishWorkout's completedWorkout
CompletedWorkout(w, notes, rating, t) ==
    Spread(w, [notes |-> notes, rating |-> rating, completed |-> TRUE,
               duration |-> t - w.date])

\* currentWorkout after completeSet and after uncompleteSet (useStore.ts:137-165)
AfterCompleteSet(w, setId, actualReps, actualWeight, rpe) ==
    IF w # Null
    THEN Spread(w, [sets |-> CompletedSets(w.sets, setId, actualReps, actualWeight, rpe)])
    ELSE Null
AfterUncompleteSet(w, setId) ==
    IF w # Null THEN Spread(w, [sets |-> UncompletedSets(w.sets, setId)]) ELSE Null

\* Partial<WorkoutLog> as updateCurrentWorkout receives it: the sets with one
\* added or one removed (Tracker.tsx:123-158), a completed flag, an id
SetsPartials(d) ==
    LET cur == IF currentWorkout[d] = Null THEN <<>> ELSE currentWorkout[d].sets
    IN  {[sets |-> WithoutId(cur, i)] : i \in IdsOf(cur)}
        \cup (IF nextId <= MaxId /\ Len(cur) < MaxSets
              THEN {[sets |-> Append(cur, [id |-> nextId, completed |-> FALSE])]}
              ELSE {})
WorkoutPartials(d) ==
    SetsPartials(d)
    \cup {[completed |-> b] : b \in BOOLEAN}
    \cup {[id |-> i] : i \in IdsOf(workoutLogs[d])}

\* Observation of the call sequence, for the claims about whole sessions
ScriptStart(d, n) ==
    IF currentWorkout[d] # Null THEN Null
    ELSE [n |-> n, ids |-> {nextId + i : i \in 1..n}, called |-> {},
          base |-> workoutLogs[d], fin |-> FALSE]
ScriptComplete(d, setId) ==
    IF script[d] = Null THEN Null
    ELSE IF script[d].fin \/ setId \notin script[d].ids \ script[d].called THEN Null
    ELSE [script[d] EXCEPT !.called = @ \cup {setId}]
ScriptFinish(d) ==
    IF script[d] = Null \/ currentWorkout[d] = Null THEN Null
    ELSE IF script[d].fin THEN Null
    ELSE [script[d] EXCEPT !.fin = TRUE]

\* startWorkout(activeProgram?.id, _, sets) at time t (useStore.ts:116-127);
\* uuidv4() yields nextId, nextId + 1, ...
StartWorkoutOf(d, sets, t) ==
    /\ nextId + Len(sets) <= MaxId
    /\ currentWorkout' = [currentWorkout EXCEPT ![d] =
            StartedWorkout(IdOrNull(activeProgram[d]), sets, nextId, t)]
    /\ nextId' = nextId + Len(sets) + 1
    /\ clock' = [clock EXCEPT ![d] = t]
    /\ script' = [script EXCEPT ![d] = ScriptStart(d, Len(sets))]
    /\ UNCHANGED dirty
    /\ UNCHANGED <<programs, activeProgram, workoutLogs, syncVars, deviceId,
                   srvVars, net, mergeVars, chatVars, notArray,
                   pageVars>>
    /\ Persist(d)

StartWorkout(d) ==
    \E sets \in Templates, t \in NowSet(d) :
        /\ StartWorkoutOf(d, sets, t)
        /\ lastOp' = [op |-> "startWorkout", dev |-> d]

\* the prescribed sets of a workout day as handleStartWorkout passes them
\* (Tracker.tsx:116-121): each with the fields that startWorkout overwrites
\* and one, exerciseName, that it copies
ExerciseNames == {"squat", "press"}
PrescribedSets == [id : TemplateIds, completed : BOOLEAN, exerciseName : ExerciseNames]
Prescriptions == UNION {[1..n -> PrescribedSets] : n \in 0..MaxSets}

\* startWorkout on such a prescription; lastOp records the argument
StartPrescribed(d) ==
    \E sets \in Prescriptions, t \in NowSet(d) :
        /\ StartWorkoutOf(d, sets, t)
        /\ lastOp' = [op |-> "startWorkout", dev |-> d, sets |-> sets]

\* a faulty updateCurrentWorkout that spreads without the null test: C11 must
\* not survive it
UpdateCurrentWorkoutUnguarded(d) ==
    \E updates \in WorkoutPartials(d) :
        /\ currentWorkout' = [currentWorkout EXCEPT ![d] = Spread(@, updates)]
        /\ script' = [script EXCEPT ![d] = Null]
        /\ lastOp' = [op |-> "updateCurrentWorkout", dev |-> d]
        /\ UNCHANGED <<programs, activeProgram, workoutLogs, syncVars, envVars,
                       srvVars, net, dirty, mergeVars, chatVars, notArray,
                       pageVars>>
        /\ Persist(d)

UpdateCurrentWorkout(d) ==
    \E updates \in WorkoutPartials(d) :
        /\ currentWorkout' = [currentWorkout EXCEPT ![d] =
                IF @ # Null THEN Spread(@, updates) ELSE Null]
        /\ nextId' = IF currentWorkout[d] # Null /\ "sets" \in DOMAIN updates
                         /\ Len(updates.sets) > Len(currentWorkout[d].sets)
                      THEN nextId + 1 ELSE nextId
        /\ script' = [script EXCEPT ![d] = Null]
        /\ UNCHANGED dirty
        /\ lastOp' = [op |-> "updateCurrentWorkout", dev |-> d]
        /\ UNCHANGED <<programs, activeProgram, workoutLogs, syncVars, clock,
                       deviceId, srvVars, net, mergeVars, chatVars, notArray,
                       pageVars>>
        /\ Persist(d)

\* the store's completeSet; the fields of the Tracker page are left to the caller
CompleteSetOf(d, setId, actualReps, actualWeight, rpe) ==
    /\ currentWorkout' = [currentWorkout EXCEPT ![d] =
            AfterCompleteSet(@, setId, actualReps, actualWeight, rpe)]
    /\ script' = [script EXCEPT ![d] = ScriptComplete(d, setId)]
    /\ UNCHANGED dirty
    /\ lastOp' = [op |-> "completeSet", dev |-> d, setId |-> setId,
                  actualReps |-> actualReps, actualWeight |-> actualWeight, rpe |-> rpe]
    /\ UNCHANGED <<programs, activeProgram, workoutLogs, syncVars, envVars,
                   srvVars, net, mergeVars, chatVars, notArray>>
    /\ Persist(d)

CompleteSet(d) ==
    \E setId \in KnownIds(IF currentWorkout[d] = Null THEN <<>> ELSE currentWorkout[d].sets),
       actualReps \in Reps, actualWeight \in Weights, rpe \in Rpes :
        /\ CompleteSetOf(d, setId, actualReps, actualWeight, rpe)
        /\ UNCHANGED pageVars

UncompleteSet(d) ==
    \E setId \in KnownIds(IF currentWorkout[d] = Null THEN <<>> ELSE currentWorkout[d].sets) :
        /\ currentWorkout' = [currentWorkout EXCEPT ![d] = AfterUncompleteSet(@, setId)]
        /\ script' = [script EXCEPT ![d] = Null]
        /\ UNCHANGED dirty
        /\ lastOp' = [op |-> "uncompleteSet", dev |-> d, setId |-> setId]
        /\ UNCHANGED <<programs, activeProgram, workoutLogs, syncVars, envVars,
                       srvVars, net, mergeVars, chatVars, notArray,
                       pageVars>>
        /\ Persist(d)

\* the store's finishWorkout; the fields of the Tracker page are left to the caller
FinishWorkoutStore(d) ==
    \E notes \in Notes, rating \in Ratings, t \in NowSet(d) :
        /\ script' = [script EXCEPT ![d] = ScriptFinish(d)]
        /\ dirty' = IF currentWorkout[d] = Null THEN dirty
                    ELSE Touched(d, {currentWorkout[d].id})
        /\ lastOp' = [op |-> "finishWorkout", dev |-> d]
        /\ IF currentWorkout[d] = Null
           THEN UNCHANGED <<workoutLogs, currentWorkout, net, clock>>
           ELSE LET completedWorkout == CompletedWorkout(currentWorkout[d], notes, rating, t)
                IN  /\ CanSend(d)
                    /\ Len(workoutLogs[d]) < MaxLogs
                    /\ workoutLogs' = [workoutLogs EXCEPT ![d] = Append(@, completedWorkout)]
                    /\ currentWorkout' = [currentWorkout EXCEPT ![d] = Null]
                    /\ net' = Send(d, {[type |-> "saveWorkout", user |-> deviceId[d],
                                        workout |-> completedWorkout]})
                    /\ clock' = [clock EXCEPT ![d] = t]
        /\ UNCHANGED <<programs, activeProgram, syncVars, deviceId, nextId,
                       srvVars, mergeVars, chatVars, notArray>>
        /\ IF currentWorkout[d] = Null THEN UNCHANGED durable ELSE Persist(d)

FinishWorkout(d) == FinishWorkoutStore(d) /\ UNCHANGED pageVars

CancelWorkout(d) ==
    /\ currentWorkout' = [currentWorkout EXCEPT ![d] = Null]
    /\ script' = [script EXCEPT ![d] = Null]
    /\ UNCHANGED dirty
    /\ lastOp' = [op |-> "cancelWorkout", dev |-> d]
    /\ UNCHANGED <<programs, activeProgram, workoutLogs, syncVars, envVars,
                   srvVars, net, mergeVars, chatVars, notArray,
                   pageVars>>
    /\ Persist(d)

---------------------------------------------------------------------------
(* Export and import: useStore.ts:396-424.  A blob is the text handed to     *)
(* importData, kept as what JSON.parse makes of it: parse is "error" when     *)
(* the text is not JSON, "null" when it is the JSON null, "object" when it    *)
(* is an object.  A field that importData reads as a list is a JSON value:    *)
(* absent, null, an array (items), or an object that is not an array.         *)

JsonAbsent == [kind |-> "absent", items |-> <<>>]
JsonNull == [kind |-> "null", items |-> <<>>]
JsonArray(items) == [kind |-> "array", items |-> items]
JsonObject == [kind |-> "object", items |-> <<>>]

\* JavaScript truthiness of a JSON value: every array and object is truthy
Truthy(v) == v.kind \in {"array", "object"}
\* v || []
OrEmpty(v) == IF Truthy(v) THEN v.items ELSE <<>>

\* the value of a state field as JSON.stringify writes it
JsonField(d, f, items) ==
    IF f \in notArray[d] THEN JsonObject ELSE JsonArray(items)

\* a faulty exportData that leaves the active program out: C13 must not
\* survive it
exportDataNoActive(d) ==
    [parse |-> "object",
     programs |-> JsonField(d, "programs", programs[d]),
     activeProgram |-> Null,
     workoutLogs |-> JsonField(d, "workoutLogs", JsonLogs(workoutLogs[d])),
     chatMessages |-> JsonField(d, "chatMessages", chatMessages[d])]

\* JSON.parse(exportData()): version and exportedAt are not read by importData
exportData(d) ==
    [parse |-> "object",
     programs |-> JsonField(d, "programs", programs[d]),
     activeProgram |-> activeProgram[d],
     workoutLogs |-> JsonField(d, "workoutLogs", JsonLogs(workoutLogs[d])),
     chatMessages |-> JsonField(d, "chatMessages", chatMessages[d])]

\* the blobs a caller hands in: its own export, and texts made elsewhere
ImportedProgram == [id |-> -3, name |-> "n1", updatedAt |-> 1]
ImportedLog == [id |-> -4, date |-> 1, duration |-> 0, sets |-> <<>>, completed |-> TRUE]
ImportedMessage == [id |-> -5, role |-> "user", content |-> "hi"]
GoodBlob ==
    [parse |-> "object",
     programs |-> JsonArray(<<ImportedProgram>>),
     activeProgram |-> ImportedProgram,
     workoutLogs |-> JsonArray(<<ImportedLog>>),
     chatMessages |-> JsonArray(<<ImportedMessage>>)]
Blobs(d) ==
    {exportData(d), GoodBlob}
    \cup {[GoodBlob EXCEPT !.parse = p] : p \in {"error", "null"}}
    \cup {[GoodBlob EXCEPT !.programs = v] :
             v \in {JsonAbsent, JsonNull, JsonArray(<<>>), JsonObject}}
    \cup {[GoodBlob EXCEPT !.workoutLogs = v] :
             v \in {JsonAbsent, JsonNull, JsonArray(<<>>), JsonObject}}
    \cup {[GoodBlob EXCEPT !.activeProgram = Null, !.chatMessages = JsonAbsent]}

\* importData's test: JSON.parse throws, or reading a property of null
\* throws (both caught), or !data.programs || !data.workoutLogs
ImportAccepted(data) ==
    /\ data.parse = "object"
    /\ Truthy(data.programs)
    /\ Truthy(data.workoutLogs)

ImportData(d) ==
    \E data \in Blobs(d) :
        /\ lastOp' = [op |-> "importData", dev |-> d, data |-> data,
                      returned |-> ImportAccepted(data)]
        /\ IF ImportAccepted(data)
           THEN /\ programs' = [programs EXCEPT ![d] = OrEmpty(data.programs)]
                /\ activeProgram' = [activeProgram EXCEPT ![d] = data.activeProgram]
                /\ workoutLogs' = [workoutLogs EXCEPT ![d] = OrEmpty(data.workoutLogs)]
                /\ chatMessages' = [chatMessages EXCEPT ![d] = OrEmpty(data.chatMessages)]
                /\ notArray' = [notArray EXCEPT ![d] =
                        {f \in {"programs", "workoutLogs", "chatMessages"} :
                            data[f].kind = "object"}]
                /\ script' = [script EXCEPT ![d] = Null]
           ELSE UNCHANGED <<programs, activeProgram, workoutLogs, chatMessages,
                            notArray, script>>
        /\ UNCHANGED <<currentWorkout, syncVars, envVars, srvVars, net, dirty,
                       mergeVars, conversations, activeConversationId, pageVars>>
        /\ IF ImportAccepted(data) THEN Persist(d) ELSE UNCHANGED durable

---------------------------------------------------------------------------
(* Conversations: useStore.ts:196-306.  new Date() is read once per call.    *)

Roles == {"user", "assistant"}
Contents == {"hi"}

\* createConversation's newConversation
NewConversation(id, t) ==
    [id |-> id, title |-> "New Chat", messages |-> <<>>, createdAt |-> t, updatedAt |-> t]

\* addChatMessage's updatedConversations; a content of Contents is shorter
\* than 40 characters, so content.slice(0, 40) + '' is the content
WithMessage(cs, conversationId, message, t) ==
    [i \in DOMAIN cs |->
        IF cs[i].id = conversationId
        THEN Spread(cs[i],
                [title |-> IF cs[i].title = "New Chat" /\ message.role = "user"
                           THEN message.content ELSE cs[i].title,
                 messages |-> Append(cs[i].messages, message),
                 updatedAt |-> t])
        ELSE cs[i]]

CreateConversation(d) ==
    \E t \in NowSet(d) :
        /\ nextId <= MaxId
        /\ conversations' = [conversations EXCEPT ![d] = <<NewConversation(nextId, t)>> \o @]
        /\ activeConversationId' = [activeConversationId EXCEPT ![d] = <<nextId>>]
        /\ chatMessages' = [chatMessages EXCEPT ![d] = <<>>]
        /\ nextId' = nextId + 1
        /\ clock' = [clock EXCEPT ![d] = t]
        /\ lastOp' = [op |-> "createConversation", dev |-> d]
        /\ UNCHANGED <<storeVars, syncVars, deviceId, srvVars, net, obsVars, mergeVars,
                       notArray, pageVars>>
        /\ Persist(d)

\* switchConversation(id) (useStore.ts:217-225)
SwitchConversation(d) ==
    \E id \in KnownIds(conversations[d]) :
        LET i == FirstIndex(conversations[d], id)
        IN  /\ lastOp' = [op |-> "switchConversation", dev |-> d]
            /\ UNCHANGED <<storeVars, syncVars, envVars, srvVars, net, obsVars,
                           mergeVars, conversations, pageVars>>
            /\ IF i # 0
               THEN /\ activeConversationId' = [activeConversationId EXCEPT ![d] = <<id>>]
                    /\ chatMessages' = [chatMessages EXCEPT ![d] =
                            conversations[d][i].messages]
                    /\ notArray' = [notArray EXCEPT ![d] = @ \ {"chatMessages"}]
                    /\ Persist(d)
               ELSE UNCHANGED <<activeConversationId, chatMessages, notArray, durable>>

\* deleteConversation(id) (useStore.ts:227-241)
DeleteConversation(d) ==
    \E id \in KnownIds(conversations[d]) :
        LET newConversations == WithoutId(conversations[d], id)
            wasActive == activeConversationId[d] = <<id>>
        IN  /\ conversations' = [conversations EXCEPT ![d] = newConversations]
            /\ activeConversationId' = [activeConversationId EXCEPT ![d] =
                    IF wasActive
                    THEN IF newConversations = <<>> THEN Null
                         ELSE <<newConversations[1].id>>
                    ELSE @]
            /\ chatMessages' = [chatMessages EXCEPT ![d] =
                    IF wasActive
                    THEN IF newConversations = <<>> THEN <<>>
                         ELSE newConversations[1].messages
                    ELSE @]
            /\ notArray' = [notArray EXCEPT ![d] =
                    IF wasActive THEN @ \ {"chatMessages"} ELSE @]
            /\ lastOp' = [op |-> "deleteConversation", dev |-> d]
            /\ UNCHANGED <<storeVars, syncVars, envVars, srvVars, net, obsVars,
                           mergeVars, pageVars>>
            /\ Persist(d)

\* clearChatHistory (useStore.ts:293-306)
ClearChatHistory(d) ==
    \E t \in NowSet(d) :
        /\ lastOp' = [op |-> "clearChatHistory", dev |-> d]
        /\ UNCHANGED <<storeVars, syncVars, deviceId, nextId, srvVars, net, obsVars,
                       mergeVars, activeConversationId, pageVars>>
        /\ IF activeConversationId[d] = Null
           THEN UNCHANGED <<conversations, chatMessages, notArray, clock, durable>>
           ELSE /\ conversations' = [conversations EXCEPT ![d] =
                        [i \in DOMAIN @ |->
                            IF @[i].id = activeConversationId[d][1]
                            THEN Spread(@[i], [messages |-> <<>>, updatedAt |-> t])
                            ELSE @[i]]]
                /\ chatMessages' = [chatMessages EXCEPT ![d] = <<>>]
                /\ notArray' = [notArray EXCEPT ![d] = @ \ {"chatMessages"}]
                /\ clock' = [clock EXCEPT ![d] = t]
                /\ Persist(d)

\* addChatMessage, with the createConversation it calls when no conversation
\* is active
AddChatMessage(d) ==
    \E role \in Roles, content \in Contents, t \in NowSet(d) :
        LET create == activeConversationId[d] = Null
            conversationId == IF create THEN nextId ELSE activeConversationId[d][1]
            messageId == IF create THEN nextId + 1 ELSE nextId
            message == [id |-> messageId, role |-> role, content |-> content,
                        timestamp |-> t]
            cs == IF create THEN <<NewConversation(nextId, t)>> \o conversations[d]
                  ELSE conversations[d]
            shown == IF create THEN <<>> ELSE chatMessages[d]
        IN  /\ messageId <= MaxId
            /\ conversations' = [conversations EXCEPT ![d] =
                    WithMessage(cs, conversationId, message, t)]
            /\ activeConversationId' = [activeConversationId EXCEPT ![d] =
                    <<conversationId>>]
            /\ chatMessages' = [chatMessages EXCEPT ![d] = Append(shown, message)]
            /\ nextId' = messageId + 1
            /\ clock' = [clock EXCEPT ![d] = t]
            /\ lastOp' = [op |-> "addChatMessage", dev |-> d]
            /\ UNCHANGED <<storeVars, syncVars, deviceId, srvVars, net, obsVars,
                           mergeVars, notArray, pageVars>>
            /\ Persist(d)

---------------------------------------------------------------------------
(* The remote store: src/server/db/index.js, src/server/routes/sync.js.      *)
(* A table is a function from primary key to row.  The users table is not    *)
(* kept: userDb.findOrCreate gives every X-Device-Id its own user, so the    *)
(* device identity stands for the user id.  Each route handler is one step.  *)

NullNum == -1

\* a table with row r stored under key k
WithRow(table, k, r) ==
    [i \in (DOMAIN table) \cup {k} |-> IF i = k THEN r ELSE table[i]]

\* a table without the rows whose keys are in ks
WithoutRows(table, ks) == [i \in (DOMAIN table) \ ks |-> table[i]]

\* NOW(): the database clock never runs backwards
SrvNowSet == {t \in {srvNow, srvNow + 1} : t <= MaxTime}

\* program.isActive || false
IsActiveOf(program) ==
    IF "isActive" \in DOMAIN program THEN program.isActive ELSE FALSE

\* the workout_days rows of a pushed program (index.js:185-192); a row of
\* programs keeps the workout_days rows that reference it in its field days
DayRows(program) ==
    IF "workoutDays" \in DOMAIN program
    THEN [i \in DOMAIN program.workoutDays |-> [id |-> program.workoutDays[i].id]]
    ELSE <<>>

\* the ids of the workout_days rows that belong to other programs
OtherDayIds(table, id) ==
    UNION {IdsOf(table[i].days) : i \in (DOMAIN table) \ {id}}

\* whether programDb.upsert's transaction commits: after the program's own
\* days are deleted every day id must be unused (primary key)
ProgramAccepted(table, program) ==
    /\ IdsOf(DayRows(program)) \cap OtherDayIds(table, program.id) = {}
    /\ \A i, j \in DOMAIN DayRows(program) :
          i # j => DayRows(program)[i].id # DayRows(program)[j].id

\* the workout_days rows programDb.upsert deletes (index.js:182)
DeletedDays(table, program) ==
    IF program.id \in DOMAIN table THEN IdsOf(table[program.id].days) ELSE {}

\* programDb.upsert, when it commits: INSERT ... ON CONFLICT (id) DO UPDATE SET
\* name, is_active, updated_at = NOW(); user_id is taken from the request only
\* on insert; then the days are replaced
UpsertProgram(table, userId, program, now) ==
    IF program.id \in DOMAIN table
    THEN [table EXCEPT ![program.id] =
            [@ EXCEPT !.name = program.name,
                      !.is_active = IsActiveOf(program),
                      !.updated_at = now,
                      !.days = DayRows(program)]]
    ELSE WithRow(table, program.id,
            [id |-> program.id, user_id |-> userId, name |-> program.name,
             is_active |-> IsActiveOf(program), updated_at |-> now,
             days |-> DayRows(program)])

\* programDb.setActive; the trigger update_programs_updated_at (schema.sql:121)
\* stamps every row an UPDATE touches
SetActive(table, userId, programId, now) ==
    [i \in DOMAIN table |->
        IF table[i].user_id = userId
        THEN [table[i] EXCEPT !.is_active = (programId = <<i>>), !.updated_at = now]
        ELSE table[i]]

\* programDb.delete: DELETE ... WHERE id = $1 AND user_id = $2
DeletedKeys(table, userId, programId) ==
    {i \in DOMAIN table : programId = <<i>> /\ table[i].user_id = userId}

\* workout_logs.program_id REFERENCES programs(id) ON DELETE SET NULL
ProgramIdSetNull(workouts, ks) ==
    [i \in DOMAIN workouts |->
        IF workouts[i].program_id # Null /\ workouts[i].program_id[1] \in ks
        THEN [workouts[i] EXCEPT !.program_id = Null]
        ELSE workouts[i]]

\* workout_logs.workout_day_id REFERENCES workout_days(id) ON DELETE SET NULL
WorkoutDaySetNull(workouts, dayIds) ==
    [i \in DOMAIN workouts |->
        IF workouts[i].workout_day_id # Null /\ workouts[i].workout_day_id[1] \in dayIds
        THEN [workouts[i] EXCEPT !.workout_day_id = Null]
        ELSE workouts[i]]

\* programDb.upsert on both tables: the transaction commits (ok) or is rolled
\* back; deleting the program's days clears the references workout logs hold
SaveProgram(programsT, workouts, userId, program, now) ==
    IF ProgramAccepted(programsT, program)
    THEN [programs |-> UpsertProgram(programsT, userId, program, now),
          workouts |-> WorkoutDaySetNull(workouts, DeletedDays(programsT, program)),
          ok |-> TRUE]
    ELSE [programs |-> programsT, workouts |-> workouts, ok |-> FALSE]

\* the loop of POST /all and POST /programs/bulk over the programs: the first
\* rejected upsert throws, with the earlier upserts committed
RECURSIVE UpsertPrograms(_, _, _, _, _)
UpsertPrograms(programsT, workouts, userId, ps, now) ==
    IF ps = <<>> THEN [programs |-> programsT, workouts |-> workouts, ok |-> TRUE]
    ELSE LET one == SaveProgram(programsT, workouts, userId, Head(ps), now)
         IN  IF ~one.ok THEN one
             ELSE UpsertPrograms(one.programs, one.workouts, userId, Tail(ps), now)

\* workout.workoutDayId || null
WorkoutDayOf(workout) ==
    IF "workoutDayId" \in DOMAIN workout THEN workout.workoutDayId ELSE Null

\* x || null for a number
NumOrNull(r, f) == IF f \in DOMAIN r /\ r[f] # 0 THEN r[f] ELSE NullNum

\* the workout_sets row of a pushed set (index.js:324-338)
SetRow(set) ==
    [id |-> set.id,
     actualReps |-> NumOrNull(set, "actualReps"),
     actualWeight |-> NumOrNull(set, "actualWeight"),
     rpe |-> NumOrNull(set, "rpe"),
     completed |-> set.completed]

\* the ids of the workout_sets rows that belong to other workout logs
OtherSetIds(workouts, id) ==
    UNION {IdsOf(workouts[i].sets) : i \in (DOMAIN workouts) \ {id}}

\* whether workoutDb.upsert's transaction commits: a new row needs its program
\* and its day to exist (foreign keys), and every set id must be unused
\* (primary key)
WorkoutAccepted(programsT, workouts, workout) ==
    /\ workout.id \notin DOMAIN workouts =>
          /\ workout.programId = Null \/ workout.programId[1] \in DOMAIN programsT
          /\ \/ WorkoutDayOf(workout) = Null
             \/ \E i \in DOMAIN programsT : WorkoutDayOf(workout)[1] \in IdsOf(programsT[i].days)
    /\ IdsOf(workout.sets) \cap OtherSetIds(workouts, workout.id) = {}
    /\ \A i, j \in DOMAIN workout.sets :
          i # j => workout.sets[i].id # workout.sets[j].id

\* workoutDb.upsert, when it commits: ON CONFLICT (id) DO UPDATE SET duration,
\* notes, rating, completed; then the sets are replaced
UpsertWorkout(workouts, userId, workout) ==
    LET sets == [i \in DOMAIN workout.sets |-> SetRow(workout.sets[i])]
        notes == IF "notes" \in DOMAIN workout THEN workout.notes ELSE ""
        rating == NumOrNull(workout, "rating")
    IN  IF workout.id \in DOMAIN workouts
        THEN [workouts EXCEPT ![workout.id] =
                [@ EXCEPT !.duration = workout.duration, !.notes = notes,
                          !.rating = rating, !.completed = workout.completed,
                          !.sets = sets]]
        ELSE WithRow(workouts, workout.id,
                [id |-> workout.id, user_id |-> userId,
                 program_id |-> workout.programId,
                 workout_day_id |-> WorkoutDayOf(workout), date |-> workout.date,
                 duration |-> workout.duration, notes |-> notes, rating |-> rating,
                 completed |-> workout.completed, sets |-> sets])

\* the loop of POST /all over the workouts: the first rejected upsert throws,
\* and the handler answers 500 with the earlier upserts committed
RECURSIVE UpsertWorkouts(_, _, _, _)
UpsertWorkouts(programsT, workouts, userId, ws) ==
    IF ws = <<>> THEN [table |-> workouts, ok |-> TRUE]
    ELSE IF ~WorkoutAccepted(programsT, workouts, Head(ws))
         THEN [table |-> workouts, ok |-> FALSE]
         ELSE UpsertWorkouts(programsT, UpsertWorkout(workouts, userId, Head(ws)),
                             userId, Tail(ws))

\* POST /all (sync.js:248-280): the tables after the request
PushAll(programsT, workouts, userId, body, now) ==
    LET p1 == UpsertPrograms(programsT, workouts, userId, body.programs, now)
        w1 == IF p1.ok THEN UpsertWorkouts(p1.programs, p1.workouts, userId, body.workouts)
              ELSE [table |-> p1.workouts, ok |-> FALSE]
        p2 == IF w1.ok /\ body.activeProgram # Null
              THEN SetActive(p1.programs, userId, <<body.activeProgram.id>>, now)
              ELSE p1.programs
    IN  [programs |-> p2, workouts |-> w1.table, ok |-> w1.ok]

\* a row of programs as programDb.findByUserId returns it
ProgramOfRow(row) ==
    [id |-> row.id, name |-> row.name, isActive |-> row.is_active,
     updatedAt |-> row.updated_at]

\* a row of workout_logs as workoutDb.findByUserId returns it
WorkoutOfRow(row) ==
    [id |-> row.id, programId |-> row.program_id, date |-> row.date,
     duration |-> row.duration, notes |-> row.notes, rating |-> row.rating,
     completed |-> row.completed, sets |-> row.sets]

\* the orders ORDER BY <by> DESC may return the rows with keys ks in
RowOrders(table, ks, by) ==
    {o \in [1..Cardinality(ks) -> ks] :
        /\ \A i, j \in DOMAIN o : i # j => o[i] # o[j]
        /\ \A i, j \in DOMAIN o : i < j => table[o[i]][by] >= table[o[j]][by]}

UserKeys(table, userId) == {i \in DOMAIN table : table[i].user_id = userId}

\* programs.find(p => p.isActive) || null
FirstActive(ps) ==
    LET I == {i \in DOMAIN ps : ps[i].isActive}
    IN  IF I = {} THEN Null ELSE ps[CHOOSE i \in I : \A j \in I : i <= j]

\* GET /all (sync.js:224-245): the responses the request may get.  No request
\* of the client writes table chat_messages (api.ts:165-231 has no call of
\* POST /api/sync/chat), so chatDb.findByUserId finds no row.
FetchAll(userId) ==
    {[programs |-> [i \in DOMAIN po |-> ProgramOfRow(srvPrograms[po[i]])],
      activeProgram |-> FirstActive([i \in DOMAIN po |-> ProgramOfRow(srvPrograms[po[i]])]),
      workouts |-> [i \in DOMAIN wo |-> WorkoutOfRow(srvWorkouts[wo[i]])],
      chatMessages |-> <<>>] :
        po \in RowOrders(srvPrograms, UserKeys(srvPrograms, userId), "updated_at"),
        wo \in RowOrders(srvWorkouts, UserKeys(srvWorkouts, userId), "date")}

\* --- the handlers of the fire-and-forget requests ---

ServeSaveProgram ==
    \E m \in net, now \in SrvNowSet :
        /\ m.type = "saveProgram"
        /\ LET after == SaveProgram(srvPrograms, srvWorkouts, m.user, m.program, now)
           IN  /\ srvPrograms' = after.programs
               /\ srvWorkouts' = after.workouts
        /\ srvNow' = now
        /\ net' = net \ {m}
        /\ lastOp' = [op |-> "serveSaveProgram", dev |-> "server"]
        /\ UNCHANGED <<storeVars, syncVars, envVars, obsVars, mergeVars, chatVars, notArray,
                       durable, pageVars>>

ServeDeleteProgram ==
    \E m \in net :
        /\ m.type = "deleteProgram"
        /\ LET ks == DeletedKeys(srvPrograms, m.user, m.pid)
           IN  /\ srvPrograms' = WithoutRows(srvPrograms, ks)
               /\ srvWorkouts' = WorkoutDaySetNull(ProgramIdSetNull(srvWorkouts, ks),
                                     UNION {IdsOf(srvPrograms[k].days) : k \in ks})
        /\ net' = net \ {m}
        /\ lastOp' = [op |-> "serveDeleteProgram", dev |-> "server"]
        /\ UNCHANGED <<storeVars, syncVars, envVars, srvNow, obsVars, mergeVars, chatVars, notArray,
                       durable, pageVars>>

ServeSetActive ==
    \E m \in net, now \in SrvNowSet :
        /\ m.type = "setActive"
        /\ srvPrograms' = SetActive(srvPrograms, m.user, m.pid, now)
        /\ srvNow' = now
        /\ net' = net \ {m}
        /\ lastOp' = [op |-> "serveSetActive", dev |-> "server"]
        /\ UNCHANGED <<storeVars, syncVars, envVars, srvWorkouts, obsVars, mergeVars, chatVars, notArray,
                       durable, pageVars>>

ServeSaveWorkout ==
    \E m \in net :
        /\ m.type = "saveWorkout"
        /\ srvWorkouts' = IF WorkoutAccepted(srvPrograms, srvWorkouts, m.workout)
                          THEN UpsertWorkout(srvWorkouts, m.user, m.workout)
                          ELSE srvWorkouts
        /\ net' = net \ {m}
        /\ lastOp' = [op |-> "serveSaveWorkout", dev |-> "server"]
        /\ UNCHANGED <<storeVars, syncVars, envVars, srvPrograms, srvNow, obsVars,
                       mergeVars, chatVars, notArray,
                       durable, pageVars>>

\* a request that never reaches the server: api.ts catches the error, logs it and
\* returns false (api.ts:197-200, 208-211, 219-222, 230-233)
LoseRequest ==
    \E m \in net :
        /\ net' = net \ {m}
        /\ lastOp' = [op |-> "loseRequest", dev |-> "server"]
        /\ UNCHANGED <<storeVars, syncVars, envVars, srvVars, obsVars, mergeVars, chatVars, notArray,
                       durable, pageVars>>

---------------------------------------------------------------------------
(* Reconciliation: useStore.ts:432-554, 583-610.  An async call in flight   *)
(* is a record of passes[d]: its operation, the await it is suspended at,    *)
(* and the locals it holds.                                                   *)

\* a faulty comparison, the older item winning: C1 must not survive it
MoreRecentReversed(a, b, dateField) == a[dateField] < b[dateField]

\* new Date(x).getTime() of two timestamps: localDate > remoteDate
MoreRecent(a, b, dateField) == a[dateField] > b[dateField]

\* mergeData's second loop, over the local items left to visit; merged is the
\* Map in insertion order
RECURSIVE MergeLocalItems(_, _, _)
MergeLocalItems(merged, local, dateField) ==
    IF local = <<>> THEN merged
    ELSE LET item == Head(local)
             k == FirstIndex(merged, item.id)
         IN  MergeLocalItems(
                 IF k = 0 THEN Append(merged, item)
                 ELSE IF MoreRecent(item, merged[k], dateField)
                      THEN [merged EXCEPT ![k] = item]
                      ELSE merged,
                 Tail(local), dateField)

\* mergeData's first loop: merged.set(item.id, item) for every remote item
RECURSIVE MapOfItems(_, _)
MapOfItems(merged, items) ==
    IF items = <<>> THEN merged
    ELSE LET item == Head(items)
             k == FirstIndex(merged, item.id)
         IN  MapOfItems(IF k = 0 THEN Append(merged, item)
                        ELSE [merged EXCEPT ![k] = item],
                        Tail(items))

mergeData(local, remote, dateField) ==
    MergeLocalItems(MapOfItems(<<>>, remote), local, dateField)

\* the arrays initSync hands to mergeData: programs compared on updatedAt,
\* workout logs on date.  The remote array comes from a table keyed by id, so
\* its ids are distinct; the local array is whatever the store holds.
MaxItems == 2
MergeIds == {1, 2}
MergeItems(dateField) ==
    {(dateField :> t) @@ [id |-> i, name |-> n] :
        i \in MergeIds, n \in Names, t \in 1..MaxTime}
MergeArrays(dateField) ==
    UNION {[1..n -> MergeItems(dateField)] : n \in 0..MaxItems}
DistinctIds(s) == \A i, j \in DOMAIN s : i # j => s[i].id # s[j].id
FieldOf(s) == IF \E i \in DOMAIN s : "date" \in DOMAIN s[i] THEN "date" ELSE "updatedAt"

\* one call of mergeData on the arrays drawn at the start
Merge ==
    /\ lastOp.op = "init"
    /\ mergeResult' = mergeData(mergeLocal, mergeRemote, FieldOf(mergeLocal \o mergeRemote))
    /\ lastOp' = [op |-> "mergeData", dev |-> "A"]
    /\ UNCHANGED <<storeVars, syncVars, envVars, srvVars, net, obsVars,
                   mergeLocal, mergeRemote, stats, chatVars, notArray, durable,
                   pageVars>>

\* passes[d] holds every sync call device d has started: one record per call,
\* suspended at an await (pc) with the locals it holds, or done.  A device
\* starts at most MaxPasses calls.
PassSlots == 1..MaxPasses
FreeSlots(d) ==
    LET F == {k \in PassSlots : \A q \in passes[d] : q.k # k}
    IN  {k \in F : \A j \in F : k <= j}
Done(pass) == [k |-> pass.k, op |-> pass.op, pc |-> "done"]
Replace(d, pass, new) == [passes EXCEPT ![d] = (@ \ {pass}) \cup new]

\* initSync up to its first await, isSyncAvailable()
InitSync(d) ==
    \E k \in FreeSlots(d) :
        /\ passes' = [passes EXCEPT ![d] = @ \cup {[k |-> k, op |-> "initSync", pc |-> "probe"]}]
        /\ lastOp' = [op |-> "initSync", dev |-> d]
        /\ UNCHANGED <<storeVars, syncEnabled, isSyncing, lastSynced, syncError,
                       envVars, srvVars, net, obsVars, mergeVars, chatVars, notArray,
                       durable, pageVars>>

\* isSyncAvailable() resolves (api.ts:237-244): false when the health check
\* fails or reports no database; on true the fetch is issued
InitSyncProbed(d) ==
    \E pass \in passes[d], available \in BOOLEAN :
        /\ pass.op = "initSync" /\ pass.pc = "probe"
        /\ IF ~available
           THEN /\ syncEnabled' = [syncEnabled EXCEPT ![d] = FALSE]
                /\ syncError' = [syncError EXCEPT ![d] = NoError]
                /\ passes' = Replace(d, pass, {Done(pass)})
                /\ UNCHANGED isSyncing
           ELSE /\ syncEnabled' = [syncEnabled EXCEPT ![d] = TRUE]
                /\ isSyncing' = [isSyncing EXCEPT ![d] = TRUE]
                /\ syncError' = [syncError EXCEPT ![d] = NoError]
                /\ passes' = Replace(d, pass, {[pass EXCEPT !.pc = "fetch"]})
        /\ lastOp' = [op |-> "initSyncProbed", dev |-> d]
        /\ UNCHANGED <<storeVars, lastSynced, envVars, srvVars, net, obsVars, mergeVars, chatVars, notArray,
                       pageVars>>
        /\ Persist(d)

\* GET /api/sync/all is answered; fetchSyncData returns response.data
ServeFetch(d) ==
    \E pass \in passes[d], data \in FetchAll(deviceId[d]) :
        /\ pass.pc = "fetch"
        /\ passes' = Replace(d, pass, {Spread(pass, [pc |-> "fetched", data |-> data,
                                                     failed |-> FALSE])})
        /\ lastOp' = [op |-> "serveFetch", dev |-> "server"]
        /\ UNCHANGED <<storeVars, syncEnabled, isSyncing, lastSynced, syncError,
                       envVars, srvVars, net, obsVars, mergeVars, chatVars, notArray,
                       durable, pageVars>>

\* the GET fails in transport; fetchSyncData catches and returns null (api.ts:171-174)
FailFetch(d) ==
    \E pass \in passes[d] :
        /\ pass.pc = "fetch"
        /\ passes' = Replace(d, pass, {Spread(pass, [pc |-> "fetched", data |-> Null,
                                                     failed |-> TRUE])})
        /\ lastOp' = [op |-> "failFetch", dev |-> "server"]
        /\ UNCHANGED <<storeVars, syncEnabled, isSyncing, lastSynced, syncError,
                       envVars, srvVars, net, obsVars, mergeVars, chatVars, notArray,
                       durable, pageVars>>

\* POST /api/sync/all is handled; pushSyncData returns true, or false on a 500
ServePush(d) ==
    \E pass \in passes[d], now \in SrvNowSet :
        /\ pass.pc = "push"
        /\ LET after == PushAll(srvPrograms, srvWorkouts, deviceId[d], pass.body, now)
           IN  /\ srvPrograms' = after.programs
               /\ srvWorkouts' = after.workouts
               /\ passes' = Replace(d, pass, {Spread(pass, [pc |-> "pushed",
                                                            failed |-> ~after.ok])})
        /\ srvNow' = now
        /\ lastOp' = [op |-> "servePush", dev |-> "server"]
        /\ UNCHANGED <<storeVars, syncEnabled, isSyncing, lastSynced, syncError,
                       envVars, net, obsVars, mergeVars, chatVars, notArray,
                       durable, pageVars>>

\* the POST fails in transport; pushSyncData catches and returns false (api.ts:186-189)
FailPush(d) ==
    \E pass \in passes[d] :
        /\ pass.pc = "push"
        /\ passes' = Replace(d, pass, {Spread(pass, [pc |-> "pushed", failed |-> TRUE])})
        /\ lastOp' = [op |-> "failPush", dev |-> "server"]
        /\ UNCHANGED <<storeVars, syncEnabled, isSyncing, lastSynced, syncError,
                       envVars, srvVars, net, obsVars, mergeVars, chatVars, notArray,
                       durable, pageVars>>

\* the ghost dirty is emptied when the device's last call in flight ends
DirtyAfter(d, left) == IF left = {} THEN [dirty EXCEPT ![d] = {}] ELSE dirty

\* initSync's case analysis with the first test weakened to hasServerData
InitSyncBranchMergeFirst(serverData, hasLocalData, hasServerData) ==
    IF serverData = Null THEN "null"
    ELSE IF hasServerData THEN "merge"
    ELSE IF hasLocalData /\ ~hasServerData THEN "local"
    ELSE "neither"

\* the branch initSync takes once the fetch has returned (useStore.ts:445-506):
\* if (serverData) { if ... else if ... else if ... else ... }
InitSyncBranch(serverData, hasLocalData, hasServerData) ==
    IF serverData = Null THEN "null"
    ELSE IF hasServerData /\ ~hasLocalData THEN "server"
    ELSE IF hasLocalData /\ ~hasServerData THEN "local"
    ELSE IF hasLocalData /\ hasServerData THEN "merge"
    ELSE "neither"

\* initSync after await fetchSyncData() (useStore.ts:445-506)
InitSyncFetched(d) ==
    \E pass \in passes[d], t \in NowSet(d) :
        /\ pass.op = "initSync" /\ pass.pc = "fetched"
        /\ clock' = [clock EXCEPT ![d] = t]
        /\ UNCHANGED <<currentWorkout, syncEnabled, syncError, deviceId, nextId,
                       srvVars, net, script, mergeVars, conversations,
                       activeConversationId, pageVars>>
        /\ LET serverData == pass.data
               hasLocalData == Len(programs[d]) > 0 \/ Len(workoutLogs[d]) > 0
               hasServerData == Len(serverData.programs) > 0 \/ Len(serverData.workouts) > 0
               mergedPrograms == mergeData(programs[d], serverData.programs, "updatedAt")
               mergedWorkouts == mergeData(workoutLogs[d], serverData.workouts, "date")
               mergedActive == IF serverData.activeProgram # Null
                               THEN serverData.activeProgram ELSE activeProgram[d]
               branch == InitSyncBranch(serverData, hasLocalData, hasServerData)
               left == IF branch \in {"local", "merge"}
                       THEN {Spread(pass, [pc |-> "push", branch |-> branch,
                               body |-> IF branch = "local"
                                        THEN [programs |-> programs[d],
                                              workouts |-> workoutLogs[d],
                                              activeProgram |-> activeProgram[d]]
                                        ELSE [programs |-> mergedPrograms,
                                              workouts |-> mergedWorkouts,
                                              activeProgram |-> mergedActive]])}
                       ELSE {Done(pass)}
           IN  /\ programs' = [programs EXCEPT ![d] =
                        CASE branch = "server" -> serverData.programs
                          [] branch = "merge" -> mergedPrograms
                          [] OTHER -> @]
               /\ activeProgram' = [activeProgram EXCEPT ![d] =
                        CASE branch = "server" -> serverData.activeProgram
                          [] branch = "merge" -> mergedActive
                          [] OTHER -> @]
               /\ workoutLogs' = [workoutLogs EXCEPT ![d] =
                        CASE branch = "server" -> serverData.workouts
                          [] branch = "merge" -> mergedWorkouts
                          [] OTHER -> @]
               /\ chatMessages' = [chatMessages EXCEPT ![d] =
                        IF branch = "server" THEN serverData.chatMessages ELSE @]
               /\ notArray' = [notArray EXCEPT ![d] =
                        CASE branch = "server" -> {}
                          [] branch = "merge" -> @ \ {"programs", "workoutLogs"}
                          [] OTHER -> @]
               /\ lastSynced' = [lastSynced EXCEPT ![d] =
                        IF branch \in {"server", "merge", "neither"} THEN t ELSE @]
               /\ isSyncing' = [isSyncing EXCEPT ![d] =
                        IF branch = "local" THEN @ ELSE FALSE]
               /\ passes' = Replace(d, pass, left)
               /\ dirty' = DirtyAfter(d, (InFlight(d) \ {pass})
                                            \cup {q \in left : q.pc # "done"})
               /\ lastOp' = [op |-> IF branch \in {"local", "merge"}
                                    THEN "initSyncFetched" ELSE "initSyncDone",
                             dev |-> d, failed |-> pass.failed, branch |-> branch]
               /\ IF branch = "local" THEN UNCHANGED durable ELSE Persist(d)

\* initSync after await pushSyncData(...) (useStore.ts:469-472, 495-499)
InitSyncPushed(d) ==
    \E pass \in passes[d], t \in NowSet(d) :
        /\ pass.op = "initSync" /\ pass.pc = "pushed"
        /\ lastSynced' = [lastSynced EXCEPT ![d] = IF pass.branch = "local" THEN t ELSE @]
        /\ isSyncing' = [isSyncing EXCEPT ![d] = IF pass.branch = "local" THEN FALSE ELSE @]
        /\ clock' = [clock EXCEPT ![d] = IF pass.branch = "local" THEN t ELSE @]
        /\ passes' = Replace(d, pass, {Done(pass)})
        /\ dirty' = DirtyAfter(d, InFlight(d) \ {pass})
        /\ lastOp' = [op |-> "initSyncDone", dev |-> d, failed |-> pass.failed,
                      branch |-> pass.branch]
        /\ UNCHANGED <<storeVars, syncEnabled, syncError, deviceId, nextId, srvVars,
                       net, script, mergeVars, chatVars, notArray,
                       pageVars>>
        /\ IF pass.branch = "local" THEN Persist(d) ELSE UNCHANGED durable

\* syncToServer up to its await (useStore.ts:517-523)
SyncToServer(d) ==
    \E k \in FreeSlots(d) :
        /\ IF ~syncEnabled[d] \/ isSyncing[d]
           THEN UNCHANGED <<isSyncing, syncError, passes>>
           ELSE /\ isSyncing' = [isSyncing EXCEPT ![d] = TRUE]
                /\ syncError' = [syncError EXCEPT ![d] = NoError]
                /\ passes' = [passes EXCEPT ![d] = @ \cup
                        {[k |-> k, op |-> "syncToServer", pc |-> "push",
                          body |-> [programs |-> programs[d],
                                    workouts |-> workoutLogs[d],
                                    activeProgram |-> activeProgram[d]]]}]
        /\ lastOp' = [op |-> "syncToServer", dev |-> d]
        /\ UNCHANGED <<storeVars, syncEnabled, lastSynced, envVars, srvVars, net,
                       obsVars, mergeVars, chatVars, notArray,
                       pageVars>>
        /\ IF ~syncEnabled[d] \/ isSyncing[d] THEN UNCHANGED durable ELSE Persist(d)

\* syncToServer after its await (useStore.ts:524)
SyncToServerPushed(d) ==
    \E pass \in passes[d], t \in NowSet(d) :
        /\ pass.op = "syncToServer" /\ pass.pc = "pushed"
        /\ lastSynced' = [lastSynced EXCEPT ![d] = t]
        /\ isSyncing' = [isSyncing EXCEPT ![d] = FALSE]
        /\ clock' = [clock EXCEPT ![d] = t]
        /\ passes' = Replace(d, pass, {Done(pass)})
        /\ dirty' = DirtyAfter(d, InFlight(d) \ {pass})
        /\ lastOp' = [op |-> "syncToServerDone", dev |-> d, failed |-> pass.failed]
        /\ UNCHANGED <<storeVars, syncEnabled, syncError, deviceId, nextId, srvVars,
                       net, script, mergeVars, chatVars, notArray,
                       pageVars>>
        /\ Persist(d)

\* syncFromServer up to its await (useStore.ts:531-537)
SyncFromServer(d) ==
    \E k \in FreeSlots(d) :
        /\ IF ~syncEnabled[d] \/ isSyncing[d]
           THEN UNCHANGED <<isSyncing, syncError, passes>>
           ELSE /\ isSyncing' = [isSyncing EXCEPT ![d] = TRUE]
                /\ syncError' = [syncError EXCEPT ![d] = NoError]
                /\ passes' = [passes EXCEPT ![d] = @ \cup
                        {[k |-> k, op |-> "syncFromServer", pc |-> "fetch"]}]
        /\ lastOp' = [op |-> "syncFromServer", dev |-> d]
        /\ UNCHANGED <<storeVars, syncEnabled, lastSynced, envVars, srvVars, net,
                       obsVars, mergeVars, chatVars, notArray,
                       pageVars>>
        /\ IF ~syncEnabled[d] \/ isSyncing[d] THEN UNCHANGED durable ELSE Persist(d)

\* syncFromServer merging the fetched programs into the local ones
SyncFromServerFetchedMerging(d) ==
    \E pass \in passes[d], t \in NowSet(d) :
        /\ pass.op = "syncFromServer" /\ pass.pc = "fetched"
        /\ LET serverData == pass.data
           IN  IF serverData # Null
               THEN /\ programs' = [programs EXCEPT ![d] =
                            mergeData(@, serverData.programs, "updatedAt")]
                    /\ activeProgram' = [activeProgram EXCEPT ![d] = serverData.activeProgram]
                    /\ workoutLogs' = [workoutLogs EXCEPT ![d] = serverData.workouts]
                    /\ chatMessages' = [chatMessages EXCEPT ![d] = serverData.chatMessages]
                    /\ notArray' = [notArray EXCEPT ![d] = {}]
                    /\ lastSynced' = [lastSynced EXCEPT ![d] = t]
                    /\ clock' = [clock EXCEPT ![d] = t]
               ELSE UNCHANGED <<programs, activeProgram, workoutLogs, chatMessages,
                                notArray, lastSynced, clock>>
        /\ isSyncing' = [isSyncing EXCEPT ![d] = FALSE]
        /\ passes' = Replace(d, pass, {Done(pass)})
        /\ dirty' = DirtyAfter(d, InFlight(d) \ {pass})
        /\ lastOp' = [op |-> "syncFromServerDone", dev |-> d, failed |-> pass.failed,
                      lost |-> IF pass.data = Null THEN {}
                               ELSE (IdsOf(programs[d]) \cup IdsOf(workoutLogs[d]))
                                    \ (IdsOf(pass.data.programs)
                                        \cup IdsOf(pass.data.workouts))]
        /\ UNCHANGED <<currentWorkout, syncEnabled, syncError, deviceId, nextId,
                       srvVars, net, script, mergeVars, conversations,
                       activeConversationId, pageVars>>
        /\ Persist(d)

\* syncFromServer after its await (useStore.ts:538-549); lastOp.lost records
\* the ids of the programs and logs the device held that the response lacks
SyncFromServerFetched(d) ==
    \E pass \in passes[d], t \in NowSet(d) :
        /\ pass.op = "syncFromServer" /\ pass.pc = "fetched"
        /\ LET serverData == pass.data
           IN  IF serverData # Null
               THEN /\ programs' = [programs EXCEPT ![d] = serverData.programs]
                    /\ activeProgram' = [activeProgram EXCEPT ![d] = serverData.activeProgram]
                    /\ workoutLogs' = [workoutLogs EXCEPT ![d] = serverData.workouts]
                    /\ chatMessages' = [chatMessages EXCEPT ![d] = serverData.chatMessages]
                    /\ notArray' = [notArray EXCEPT ![d] = {}]
                    /\ lastSynced' = [lastSynced EXCEPT ![d] = t]
                    /\ clock' = [clock EXCEPT ![d] = t]
               ELSE UNCHANGED <<programs, activeProgram, workoutLogs, chatMessages,
                                notArray, lastSynced, clock>>
        /\ isSyncing' = [isSyncing EXCEPT ![d] = FALSE]
        /\ passes' = Replace(d, pass, {Done(pass)})
        /\ dirty' = DirtyAfter(d, InFlight(d) \ {pass})
        /\ lastOp' = [op |-> "syncFromServerDone", dev |-> d, failed |-> pass.failed,
                      lost |-> IF pass.data = Null THEN {}
                               ELSE (IdsOf(programs[d]) \cup IdsOf(workoutLogs[d]))
                                    \ (IdsOf(pass.data.programs)
                                        \cup IdsOf(pass.data.workouts))]
        /\ UNCHANGED <<currentWorkout, syncEnabled, syncError, deviceId, nextId,
                       srvVars, net, script, mergeVars, conversations,
                       activeConversationId, pageVars>>
        /\ Persist(d)

---------------------------------------------------------------------------
(* Statistics: getStats, useStore.ts:309-366.  A date is a count of clock     *)
(* ticks; a calendar day has DayTicks of them.                               *)

DayTicks == 2

\* logDate.setHours(0, 0, 0, 0), as a day number
DayOf(date) == date \div DayTicks

\* Math.round((lastDate - logDate) / (24 * 60 * 60 * 1000))
DiffDays(lastDate, logDate) == DayOf(lastDate) - DayOf(logDate)

\* .filter((l) => l.completed)
RECURSIVE CompletedLogs(_)
CompletedLogs(logs) ==
    IF logs = <<>> THEN <<>>
    ELSE IF Head(logs).completed THEN <<Head(logs)>> \o CompletedLogs(Tail(logs))
    ELSE CompletedLogs(Tail(logs))

\* .sort((a, b) => b.date - a.date): most recent first, stable
RECURSIVE InsertByDate(_, _)
InsertByDate(sorted, log) ==
    IF sorted = <<>> THEN <<log>>
    ELSE IF Head(sorted).date >= log.date
    THEN <<Head(sorted)>> \o InsertByDate(Tail(sorted), log)
    ELSE <<log>> \o sorted
RECURSIVE SortedByDate(_)
SortedByDate(logs) ==
    IF logs = <<>> THEN <<>>
    ELSE InsertByDate(SortedByDate(SubSeq(logs, 1, Len(logs) - 1)), logs[Len(logs)])

MaxOf(a, b) == IF a >= b THEN a ELSE b

\* the loop over sortedLogs (useStore.ts:324-343); lastDate = -1 stands for null
RECURSIVE StreakLoop(_, _, _, _)
StreakLoop(logs, lastDate, tempStreak, longestStreak) ==
    IF logs = <<>> THEN [tempStreak |-> tempStreak, longestStreak |-> longestStreak]
    ELSE LET logDate == Head(logs).date
         IN  IF lastDate = -1
             THEN StreakLoop(Tail(logs), logDate, 1, longestStreak)
             ELSE IF DiffDays(lastDate, logDate) <= 2
             THEN StreakLoop(Tail(logs), logDate, tempStreak + 1, longestStreak)
             ELSE StreakLoop(Tail(logs), logDate, 1, MaxOf(longestStreak, tempStreak))

\* the streak fields of getStats()
getStats(workoutLogs_) ==
    LET sortedLogs == SortedByDate(CompletedLogs(workoutLogs_))
        after == StreakLoop(sortedLogs, -1, 0, 0)
    IN  [totalWorkouts |-> Len(CompletedLogs(workoutLogs_)),
         currentStreak |-> after.tempStreak,
         longestStreak |-> MaxOf(after.longestStreak, after.tempStreak)]

\* the workout logs a store may hold: finished or adopted from an import or a
\* sync, in any order
StatLogLists ==
    UNION {{[i \in 1..n |-> [id |-> i, date |-> dates[i], completed |-> flags[i],
                             sets |-> <<>>]] :
               dates \in [1..n -> 0..MaxStamp], flags \in [1..n -> BOOLEAN]} :
           n \in 0..MaxStatLogs}

\* a page calls getStats()
GetStats(d) ==
    /\ stats' = getStats(workoutLogs[d])
    /\ lastOp' = [op |-> "getStats", dev |-> d]
    /\ UNCHANGED <<storeVars, syncVars, envVars, srvVars, net, obsVars, mergeLocal,
                   mergeRemote, mergeResult, chatVars, notArray, durable, pageVars>>

---------------------------------------------------------------------------
(* Persistence: useStore.ts:556-577.  The page is closed or crashes and is   *)
(* loaded again: the store is built anew (its initial state) and persist     *)
(* spreads the parsed text of localStorage over it.  The calls in flight end *)
(* with the page.  Whether the callback registered as onRehydrate (567-576)  *)
(* is run depends on the zustand build: both outcomes are kept.              *)

\* the messages of the active conversation, as onRehydrate restores them
RehydratedMessages(st) ==
    LET i == IF st.activeConversationId = Null THEN 0
             ELSE FirstIndex(st.conversations, st.activeConversationId[1])
    IN  IF i = 0 THEN <<>> ELSE st.conversations[i].messages

Restart(d) ==
    LET st == durable[d]
    IN  /\ programs' = [programs EXCEPT ![d] = st.programs]
        /\ activeProgram' = [activeProgram EXCEPT ![d] = st.activeProgram]
        /\ workoutLogs' = [workoutLogs EXCEPT ![d] = st.workoutLogs]
        /\ conversations' = [conversations EXCEPT ![d] = st.conversations]
        /\ activeConversationId' = [activeConversationId EXCEPT ![d] = st.activeConversationId]
        /\ currentWorkout' = [currentWorkout EXCEPT ![d] = st.currentWorkout]
        /\ notArray' = [notArray EXCEPT ![d] = st.notArray]
        /\ \E run \in BOOLEAN :
              chatMessages' = [chatMessages EXCEPT ![d] =
                  IF run THEN RehydratedMessages(st) ELSE <<>>]
        /\ syncEnabled' = [syncEnabled EXCEPT ![d] = FALSE]
        /\ isSyncing' = [isSyncing EXCEPT ![d] = FALSE]
        /\ lastSynced' = [lastSynced EXCEPT ![d] = NoTime]
        /\ syncError' = [syncError EXCEPT ![d] = NoError]
        /\ passes' = [passes EXCEPT ![d] = {Done(q) : q \in @}]
        /\ dirty' = [dirty EXCEPT ![d] = {}]
        /\ script' = [script EXCEPT ![d] = Null]
        /\ mounted' = [mounted EXCEPT ![d] = FALSE]
        /\ elapsedTime' = [elapsedTime EXCEPT ![d] = 0]
        /\ restTimer' = [restTimer EXCEPT ![d] = 0]
        /\ restTimerActive' = [restTimerActive EXCEPT ![d] = FALSE]
        /\ restDuration' = [restDuration EXCEPT ![d] = MaxRest]
        /\ lastOp' = [op |-> "restart", dev |-> d]
        /\ UNCHANGED <<envVars, srvVars, net, mergeVars, durable>>

---------------------------------------------------------------------------
(* The Tracker page: Tracker.tsx.  Its component state lives while the page  *)
(* is mounted; the two intervals are set up and cleared by its effects       *)
(* (40-50, 64-84), so a tick can fire exactly while its effect's condition   *)
(* holds.  Durations are counted in ticks.                                   *)

\* the component state of a fresh mount (Tracker.tsx:32-38)
FreshPage(d) ==
    /\ elapsedTime' = [elapsedTime EXCEPT ![d] = 0]
    /\ restTimer' = [restTimer EXCEPT ![d] = 0]
    /\ restTimerActive' = [restTimerActive EXCEPT ![d] = FALSE]
    /\ restDuration' = [restDuration EXCEPT ![d] = MaxRest]

\* the user opens /tracker
NavigateToTracker(d) ==
    /\ ~mounted[d]
    /\ mounted' = [mounted EXCEPT ![d] = TRUE]
    /\ FreshPage(d)
    /\ lastOp' = [op |-> "navigateToTracker", dev |-> d]
    /\ UNCHANGED <<storeVars, syncVars, envVars, srvVars, net, obsVars, mergeVars,
                   chatVars, notArray, durable>>

\* the user leaves /tracker: the component is unmounted, the cleanups of its
\* effects clear both intervals and its state is dropped
NavigateAway(d) ==
    /\ mounted[d]
    /\ mounted' = [mounted EXCEPT ![d] = FALSE]
    /\ FreshPage(d)
    /\ lastOp' = [op |-> "navigateAway", dev |-> d]
    /\ UNCHANGED <<storeVars, syncVars, envVars, srvVars, net, obsVars, mergeVars,
                   chatVars, notArray, durable>>

\* handleStartWorkout (Tracker.tsx:116-121), offered while no workout is active
HandleStartWorkout(d) ==
    /\ mounted[d]
    /\ currentWorkout[d] = Null
    /\ StartWorkout(d)

\* startRestTimer (Tracker.tsx:101-104), and the countdown effect's
\* setRestTimerActive(false) when the countdown starts at zero (66-69)
StartRestTimerAt(d, duration) ==
    /\ restTimer' = [restTimer EXCEPT ![d] = duration]
    /\ restTimerActive' = [restTimerActive EXCEPT ![d] = duration > 0]

\* handleCompleteSet on a set that is not completed (Tracker.tsx:158-175):
\* completeSet, then startRestTimer(dur) when the set prescribes a rest that
\* parses to dur > 0 (dur = 0: no prescription, or one that does not parse)
HandleCompleteSet(d) ==
    \E setId \in {x \in IdsOf(IF currentWorkout[d] = Null THEN <<>>
                               ELSE currentWorkout[d].sets) :
                      \E i \in DOMAIN currentWorkout[d].sets :
                          /\ currentWorkout[d].sets[i].id = x
                          /\ ~currentWorkout[d].sets[i].completed},
       actualReps \in Reps, actualWeight \in Weights, rpe \in Rpes,
       dur \in 0..MaxRest :
        /\ mounted[d]
        /\ CompleteSetOf(d, setId, actualReps, actualWeight, rpe)
        /\ IF dur > 0 THEN StartRestTimerAt(d, dur)
           ELSE UNCHANGED <<restTimer, restTimerActive>>
        /\ UNCHANGED <<mounted, elapsedTime, restDuration>>

\* the button "Rest Timer" (Tracker.tsx:321): startRestTimer() (101-104),
\* offered during a workout while no countdown is shown
StartRestTimer(d) ==
    /\ mounted[d]
    /\ currentWorkout[d] # Null
    /\ ~restTimerActive[d]
    /\ StartRestTimerAt(d, restDuration[d])
    /\ lastOp' = [op |-> "startRestTimer", dev |-> d]
    /\ UNCHANGED <<storeVars, syncVars, envVars, srvVars, net, obsVars, mergeVars,
                   chatVars, notArray, durable, mounted, elapsedTime, restDuration>>

\* the button "Skip" (Tracker.tsx:312), offered during a workout while a
\* countdown is shown
SkipRest(d) ==
    /\ mounted[d]
    /\ currentWorkout[d] # Null
    /\ restTimerActive[d]
    /\ restTimerActive' = [restTimerActive EXCEPT ![d] = FALSE]
    /\ restTimer' = [restTimer EXCEPT ![d] = 0]
    /\ lastOp' = [op |-> "skipRest", dev |-> d]
    /\ UNCHANGED <<storeVars, syncVars, envVars, srvVars, net, obsVars, mergeVars,
                   chatVars, notArray, durable, mounted, elapsedTime, restDuration>>

\* the select "Rest duration" (Tracker.tsx:327-339)
SetRestDuration(d) ==
    \E duration \in 1..MaxRest :
        /\ mounted[d]
        /\ currentWorkout[d] # Null
        /\ ~restTimerActive[d]
        /\ restDuration' = [restDuration EXCEPT ![d] = duration]
        /\ lastOp' = [op |-> "setRestDuration", dev |-> d]
        /\ UNCHANGED <<storeVars, syncVars, envVars, srvVars, net, obsVars, mergeVars,
                       chatVars, notArray, durable, mounted, elapsedTime, restTimer,
                       restTimerActive>>

\* the interval of the timer effect fires (Tracker.tsx:40-50); the effect
\* sets it up only while currentWorkout is set and its cleanup clears it when
\* currentWorkout changes
ElapsedTick(d) ==
    \E t \in NowSet(d) :
        /\ mounted[d]
        /\ currentWorkout[d] # Null
        /\ elapsedTime' = [elapsedTime EXCEPT ![d] = t - currentWorkout[d].date]
        /\ clock' = [clock EXCEPT ![d] = t]
        /\ lastOp' = [op |-> "elapsedTick", dev |-> d]
        /\ UNCHANGED <<storeVars, syncVars, deviceId, nextId, srvVars, net, obsVars,
                       mergeVars, chatVars, notArray, durable, mounted, restTimer,
                       restTimerActive, restDuration>>

\* the interval of the rest countdown fires (Tracker.tsx:64-84); the effect
\* depends on restTimerActive and restTimer only
RestTick(d) ==
    /\ mounted[d]
    /\ restTimerActive[d] /\ restTimer[d] > 0
    /\ IF restTimer[d] <= 1
       THEN /\ restTimerActive' = [restTimerActive EXCEPT ![d] = FALSE]
            /\ restTimer' = [restTimer EXCEPT ![d] = 0]
       ELSE /\ restTimer' = [restTimer EXCEPT ![d] = @ - 1]
            /\ UNCHANGED restTimerActive
    /\ lastOp' = [op |-> "restTick", dev |-> d]
    /\ UNCHANGED <<storeVars, syncVars, envVars, srvVars, net, obsVars, mergeVars,
                   chatVars, notArray, durable, mounted, elapsedTime, restDuration>>

\* handleCancel, confirmed (Tracker.tsx:183-187)
HandleCancel(d) ==
    /\ mounted[d]
    /\ currentWorkout[d] # Null
    /\ CancelWorkout(d)

\* handleFinish (Tracker.tsx:177-181): finishWorkout, then navigate('/history')
HandleFinish(d) ==
    /\ mounted[d]
    /\ currentWorkout[d] # Null
    /\ FinishWorkoutStore(d)
    /\ mounted' = [mounted EXCEPT ![d] = FALSE]
    /\ FreshPage(d)

---------------------------------------------------------------------------
(* The state after construction: useStore.ts:60-61, 113-114, 427-430 *)

\* the chat fields, the page and the persisted copy after construction
InitRest ==
    /\ stats = Null
    /\ conversations = [d \in Devices |-> <<>>]
    /\ activeConversationId = [d \in Devices |-> Null]
    /\ chatMessages = [d \in Devices |-> <<>>]
    /\ notArray = [d \in Devices |-> {}]
    /\ mounted = [d \in Devices |-> FALSE]
    /\ elapsedTime = [d \in Devices |-> 0]
    /\ restTimer = [d \in Devices |-> 0]
    /\ restTimerActive = [d \in Devices |-> FALSE]
    /\ restDuration = [d \in Devices |-> MaxRest]
    /\ durable = [d \in Devices |-> JsonState(Partialize(d))]

Init ==
    /\ programs = [d \in Devices |-> <<>>]
    /\ activeProgram = [d \in Devices |-> Null]
    /\ workoutLogs = [d \in Devices |-> <<>>]
    /\ currentWorkout = [d \in Devices |-> Null]
    /\ syncEnabled = [d \in Devices |-> FALSE]
    /\ isSyncing = [d \in Devices |-> FALSE]
    /\ lastSynced = [d \in Devices |-> NoTime]
    /\ syncError = [d \in Devices |-> NoError]
    /\ passes = [d \in Devices |-> {}]
    /\ clock = [d \in Devices |-> 1]
    /\ deviceId = [d \in Devices |-> IF d = "A" THEN "u1" ELSE "u2"]
    /\ nextId = 1
    /\ net = {}
    /\ srvPrograms = <<>>
    /\ srvWorkouts = <<>>
    /\ srvNow = 1
    /\ lastOp = [op |-> "init", dev |-> "A"]
    /\ script = [d \in Devices |-> Null]
    /\ dirty = [d \in Devices |-> {}]
    /\ mergeLocal = <<>>
    /\ mergeRemote = <<>>
    /\ mergeResult = <<>>
    /\ InitRest

\* the store fields of Init, shared by the scenarios below
InitStore ==
    /\ activeProgram = [d \in Devices |-> Null]
    /\ workoutLogs = [d \in Devices |-> <<>>]
    /\ currentWorkout = [d \in Devices |-> Null]
    /\ isSyncing = [d \in Devices |-> FALSE]
    /\ syncError = [d \in Devices |-> NoError]
    /\ passes = [d \in Devices |-> {}]
    /\ net = {}
    /\ srvPrograms = <<>>
    /\ srvWorkouts = <<>>
    /\ srvNow = 1
    /\ lastOp = [op |-> "init", dev |-> "A"]
    /\ script = [d \in Devices |-> Null]
    /\ dirty = [d \in Devices |-> {}]

\* mergeData on every pair of arrays within the bounds
InitMerge ==
    /\ InitStore
    /\ programs = [d \in Devices |-> <<>>]
    /\ syncEnabled = [d \in Devices |-> FALSE]
    /\ lastSynced = [d \in Devices |-> NoTime]
    /\ clock = [d \in Devices |-> 1]
    /\ deviceId = [d \in Devices |-> IF d = "A" THEN "u1" ELSE "u2"]
    /\ nextId = 1
    /\ \E dateField \in {"updatedAt", "date"} :
          /\ mergeLocal \in MergeArrays(dateField)
          /\ mergeRemote \in {r \in MergeArrays(dateField) : DistinctIds(r)}
    /\ mergeResult = <<>>
    /\ InitRest

SpecMerge == InitMerge /\ [][Merge]_vars

\* Two clients that send the same X-Device-Id (two tabs of one browser share
\* localStorage 'fbb-device-id', api.ts:7-15), sync enabled on both by an
\* earlier initSync against the empty remote store.  Both hold the program
\* with id 1 (one list imported from the other's export): A as saved at T1 = 2,
\* B as edited at T2 = 3.  The database clock reads 1.
InitTwoDevices ==
    /\ InitStore
    /\ programs = [d \in Devices |->
            IF d = "A" THEN <<[id |-> 1, name |-> "n1", updatedAt |-> 2]>>
                       ELSE <<[id |-> 1, name |-> "n2", updatedAt |-> 3]>>]
    /\ syncEnabled = [d \in Devices |-> TRUE]
    /\ lastSynced = [d \in Devices |-> 1]
    /\ clock = [d \in Devices |-> IF d = "A" THEN 2 ELSE 3]
    /\ deviceId = [d \in Devices |-> "u1"]
    /\ nextId = 2
    /\ mergeLocal = <<>>
    /\ mergeRemote = <<>>
    /\ mergeResult = <<>>
    /\ InitRest

\* syncToServer of device d has completed
Pushed(d) == \E q \in passes[d] : q.op = "syncToServer" /\ q.pc = "done"

\* A pushes; then B pushes without pulling; then either device reconciles
NextTwoDevices ==
    \/ /\ ~Pushed("A")
       /\ \/ SyncToServer("A")
          \/ ServePush("A")
          \/ SyncToServerPushed("A")
    \/ /\ Pushed("A") /\ ~Pushed("B")
       /\ \/ SyncToServer("B")
          \/ ServePush("B")
          \/ SyncToServerPushed("B")
    \/ /\ Pushed("A") /\ Pushed("B")
       /\ \E d \in Devices :
             \/ InitSync(d)
             \/ InitSyncProbed(d)
             \/ ServeFetch(d)
             \/ InitSyncFetched(d)
             \/ ServePush(d)
             \/ InitSyncPushed(d)

SpecTwoDevices == InitTwoDevices /\ [][NextTwoDevices]_vars

\* The requests of one user, each sent and handled: program upsert, push-all,
\* set-active and delete.  A program in a request is a Program of the store
\* (useStore.ts:71-99) or one adopted from GET /all, which carries the isActive
\* that programDb.findByUserId returned (index.js:145, useStore.ts:455-462,
\* 539-546); its updatedAt is not read by the remote store.
MaxRows == 2
ProgramPayloads ==
    [id : 1..MaxRows, name : Names, updatedAt : {1}]
    \cup [id : 1..MaxRows, name : Names, updatedAt : {1}, isActive : BOOLEAN]
PushBodies ==
    {[programs |-> ps, workouts |-> <<>>, activeProgram |-> a] :
        ps \in {q \in UNION {[1..n -> ProgramPayloads] : n \in 0..MaxRows} : DistinctIds(q)},
        a \in ProgramPayloads \cup {Null}}
Requests(userId) ==
    {[type |-> "saveProgram", user |-> userId, program |-> program] :
        program \in ProgramPayloads}
    \cup {[type |-> "setActive", user |-> userId, pid |-> pid] :
            pid \in {<<i>> : i \in 1..MaxRows} \cup {Null}}
    \cup {[type |-> "deleteProgram", user |-> userId, pid |-> <<i>>] : i \in 1..MaxRows}
    \cup {[type |-> "pushAll", user |-> userId, body |-> body] : body \in PushBodies}

SendRequest ==
    \E m \in Requests("u1") :
        /\ net = {}
        /\ net' = {m}
        /\ lastOp' = [op |-> "sendRequest", dev |-> "A"]
        /\ UNCHANGED <<storeVars, syncVars, envVars, srvVars, obsVars, mergeVars, chatVars, notArray,
                       durable, pageVars>>

\* POST /api/sync/all of a request not awaited by a sync call
ServePushAll ==
    \E m \in net, now \in SrvNowSet :
        /\ m.type = "pushAll"
        /\ LET after == PushAll(srvPrograms, srvWorkouts, m.user, m.body, now)
           IN  /\ srvPrograms' = after.programs
               /\ srvWorkouts' = after.workouts
        /\ srvNow' = now
        /\ net' = net \ {m}
        /\ lastOp' = [op |-> "servePushAll", dev |-> "server"]
        /\ UNCHANGED <<storeVars, syncVars, envVars, obsVars, mergeVars, chatVars, notArray,
                       durable, pageVars>>

NextRemote ==
    \/ SendRequest
    \/ ServeSaveProgram
    \/ ServeDeleteProgram
    \/ ServeSetActive
    \/ ServePushAll

SpecRemote == Init /\ [][NextRemote]_vars

\* Requests that carry nested rows: a program with a workout day, a workout
\* log of that day with a set (types/index.ts:128-173).  The ids are made on
\* a client; the day has id 11 and the set id 21.
ResendPrograms ==
    [id : 1..MaxRows, name : {"n1"}, updatedAt : {1}]
    \cup [id : 1..MaxRows, name : {"n1"}, updatedAt : {1}, workoutDays : {<<[id |-> 11]>>}]
ResendWorkouts ==
    UNION {[id : {3}, programId : {<<1>>}, date : {1}, duration : {0},
            sets : {<<>>, <<[id |-> 21, completed |-> TRUE]>>}, completed : {TRUE}],
           [id : {3}, programId : {<<1>>}, workoutDayId : {<<11>>}, date : {1},
            duration : {0}, sets : {<<>>, <<[id |-> 21, completed |-> TRUE]>>},
            completed : {TRUE}]}
ResendBodies ==
    {[programs |-> ps, workouts |-> ws, activeProgram |-> a] :
        ps \in {q \in UNION {[1..n -> ResendPrograms] : n \in 0..MaxRows} : DistinctIds(q)},
        ws \in {<<>>} \cup {<<w>> : w \in ResendWorkouts},
        a \in {Null, [id |-> 1, name |-> "n1", updatedAt |-> 1]}}
ResendRequests(userId) ==
    {[type |-> "saveProgram", user |-> userId, program |-> program] :
        program \in ResendPrograms}
    \cup {[type |-> "saveWorkout", user |-> userId, workout |-> workout] :
            workout \in ResendWorkouts}
    \cup {[type |-> "pushAll", user |-> userId, body |-> body] : body \in ResendBodies}

SendResend ==
    \E m \in ResendRequests("u1") :
        /\ net = {}
        /\ net' = {m}
        /\ lastOp' = [op |-> "sendRequest", dev |-> "A"]
        /\ UNCHANGED <<storeVars, syncVars, envVars, srvVars, obsVars, mergeVars,
                       chatVars, notArray, durable, pageVars>>

NextResend ==
    \/ SendResend
    \/ ServeSaveProgram
    \/ ServeSaveWorkout
    \/ ServePushAll

SpecResend == Init /\ [][NextResend]_vars

\* The requests of two device identities about the same entity ids: program
\* 1 and workout 3 (ids made on a client travel with an export, Settings'
\* import puts them on another device).
TenantPrograms == [id : {1}, name : Names, updatedAt : {1}]
TenantWorkouts ==
    [id : {3}, programId : {Null}, date : {1}, duration : {0, 1},
     sets : {<<>>}, completed : {TRUE}]
TenantRequests(userId) ==
    {[type |-> "saveProgram", user |-> userId, program |-> program] :
        program \in TenantPrograms}
    \cup {[type |-> "saveWorkout", user |-> userId, workout |-> workout] :
            workout \in TenantWorkouts}
    \cup {[type |-> "setActive", user |-> userId, pid |-> pid] : pid \in {<<1>>, Null}}
    \cup {[type |-> "deleteProgram", user |-> userId, pid |-> <<1>>]}
    \cup {[type |-> "pushAll", user |-> userId,
            body |-> [programs |-> <<program>>, workouts |-> <<workout>>,
                      activeProgram |-> IF active THEN program ELSE Null]] :
            program \in TenantPrograms, workout \in TenantWorkouts,
            active \in BOOLEAN}

SendTenant ==
    \E userId \in Users : \E m \in TenantRequests(userId) :
        /\ net = {}
        /\ net' = {m}
        /\ lastOp' = [op |-> "sendRequest", dev |-> IF userId = "u1" THEN "A" ELSE "B"]
        /\ UNCHANGED <<storeVars, syncVars, envVars, srvVars, obsVars, mergeVars,
                       chatVars, notArray, durable, pageVars>>

NextTenants ==
    \/ SendTenant
    \/ ServeSaveProgram
    \/ ServeSaveWorkout
    \/ ServeSetActive
    \/ ServeDeleteProgram
    \/ ServePushAll

SpecTenants == Init /\ [][NextTenants]_vars

\* the tables after the remote store has handled request m at time now
\* (the handlers ServeSaveProgram, ServeSaveWorkout, ServePushAll)
Handled(tables, m, now) ==
    CASE m.type = "saveProgram" ->
            LET after == SaveProgram(tables.programs, tables.workouts, m.user, m.program, now)
            IN  [programs |-> after.programs, workouts |-> after.workouts]
      [] m.type = "saveWorkout" ->
            [programs |-> tables.programs,
             workouts |-> IF WorkoutAccepted(tables.programs, tables.workouts, m.workout)
                          THEN UpsertWorkout(tables.workouts, m.user, m.workout)
                          ELSE tables.workouts]
      [] m.type = "pushAll" ->
            LET after == PushAll(tables.programs, tables.workouts, m.user, m.body, now)
            IN  [programs |-> after.programs, workouts |-> after.workouts]

\* the workout session on one device, sync never enabled
NextSession ==
    \E d \in {"A"} :
        \/ StartWorkout(d)
        \/ UpdateCurrentWorkout(d)
        \/ CompleteSet(d)
        \/ UncompleteSet(d)
        \/ FinishWorkout(d)
        \/ CancelWorkout(d)

SpecSession == Init /\ [][NextSession]_vars

\* workouts started from prescriptions, during a session or not, with
\* workouts finished before
NextStart ==
    \E d \in {"A"} :
        \/ StartPrescribed(d)
        \/ CompleteSet(d)
        \/ FinishWorkout(d)
        \/ CancelWorkout(d)

SpecStart == Init /\ [][NextStart]_vars

\* getStats on every list of workout logs within the bounds
InitStats ==
    /\ programs = [d \in Devices |-> <<>>]
    /\ activeProgram = [d \in Devices |-> Null]
    /\ \E logs \in StatLogLists :
          workoutLogs = [d \in Devices |-> IF d = "A" THEN logs ELSE <<>>]
    /\ currentWorkout = [d \in Devices |-> Null]
    /\ syncEnabled = [d \in Devices |-> FALSE]
    /\ lastSynced = [d \in Devices |-> NoTime]
    /\ isSyncing = [d \in Devices |-> FALSE]
    /\ syncError = [d \in Devices |-> NoError]
    /\ passes = [d \in Devices |-> {}]
    /\ clock = [d \in Devices |-> 1]
    /\ deviceId = [d \in Devices |-> IF d = "A" THEN "u1" ELSE "u2"]
    /\ nextId = MaxStatLogs + 1
    /\ net = {}
    /\ srvPrograms = <<>>
    /\ srvWorkouts = <<>>
    /\ srvNow = 1
    /\ lastOp = [op |-> "init", dev |-> "A"]
    /\ script = [d \in Devices |-> Null]
    /\ dirty = [d \in Devices |-> {}]
    /\ mergeLocal = <<>>
    /\ mergeRemote = <<>>
    /\ mergeResult = <<>>
    /\ InitRest

NextStats == GetStats("A")

SpecStats == InitStats /\ [][NextStats]_vars

\* the conversations of one device and its restarts, up to the first import
NextChat ==
    \E d \in {"A"} :
        \/ ImportData(d)
        \/ /\ lastOp.op # "importData"
           /\ \/ CreateConversation(d)
              \/ SwitchConversation(d)
              \/ DeleteConversation(d)
              \/ ClearChatHistory(d)
              \/ AddChatMessage(d)
              \/ Restart(d)

SpecChat == Init /\ [][NextChat]_vars

\* The state after an initSync of device A that found both sides empty
\* (useStore.ts:500-503): sync enabled, lastSynced set, nothing else changed
InitSynced ==
    /\ InitStore
    /\ programs = [d \in Devices |-> <<>>]
    /\ syncEnabled = [d \in Devices |-> d = "A"]
    /\ lastSynced = [d \in Devices |-> IF d = "A" THEN 1 ELSE NoTime]
    /\ clock = [d \in Devices |-> 1]
    /\ deviceId = [d \in Devices |-> IF d = "A" THEN "u1" ELSE "u2"]
    /\ nextId = 1
    /\ mergeLocal = <<>>
    /\ mergeRemote = <<>>
    /\ mergeResult = <<>>
    /\ InitRest

\* the workout session on one device with sync enabled, and the remote store
\* handling or losing the pushes it sends
NextSessionSynced ==
    \/ NextSession
    \/ ServeSaveWorkout
    \/ LoseRequest

SpecSessionSynced == InitSynced /\ [][NextSessionSynced]_vars

\* the program list on one device, sync never enabled
NextPrograms ==
    \E d \in {"A"} :
        \/ AddProgram(d)
        \/ UpdateProgram(d)
        \/ DeleteProgram(d)
        \/ SetActiveProgram(d)

SpecPrograms == Init /\ [][NextPrograms]_vars

\* export and import on one device, sync never enabled: the calls that fill
\* the lists, then imports
NextImport ==
    \E d \in {"A"} :
        \/ ImportData(d)
        \/ /\ lastOp.op # "importData"
           /\ \/ AddProgram(d)
              \/ SetActiveProgram(d)
              \/ StartWorkout(d)
              \/ FinishWorkout(d)

SpecImport == Init /\ [][NextImport]_vars

\* mutations of every persisted field on one device with sync enabled, the
\* pushes they send lost or handled, and restarts of the page at any point
NextCrash ==
    \/ \E d \in {"A"} :
          \/ AddProgram(d)
          \/ SetActiveProgram(d)
          \/ StartWorkout(d)
          \/ FinishWorkout(d)
          \/ AddChatMessage(d)
          \/ Restart(d)
    \/ LoseRequest

SpecCrash == InitSynced /\ [][NextCrash]_vars

\* the program list and the active program on one device with sync enabled,
\* and the remote store handling the pushes they send
NextActive ==
    \/ \E d \in {"A"} :
          \/ nextId <= MaxAdded /\ AddProgram(d)
          \/ UpdateProgram(d)
          \/ DeleteProgram(d)
          \/ SetActiveProgram(d)
    \/ ServeSaveProgram
    \/ ServeSetActive
    \/ ServeDeleteProgram

SpecActive == InitSynced /\ [][NextActive]_vars


\* the session under way of InitPushes
InitSession ==
    [d \in Devices |-> IF d = "A" THEN StartedWorkout(Null, <<>>, 1, 1) ELSE Null]

\* Device A before any initSync (sync disabled) or after one that found both
\* sides empty (sync enabled, as InitSynced), with a session under way that
\* startWorkout began without a program and without prescribed sets
InitPushes ==
    /\ programs = [d \in Devices |-> <<>>]
    /\ activeProgram = [d \in Devices |-> Null]
    /\ workoutLogs = [d \in Devices |-> <<>>]
    /\ currentWorkout = InitSession
    /\ \E enabled \in BOOLEAN :
          /\ syncEnabled = [d \in Devices |-> d = "A" /\ enabled]
          /\ lastSynced = [d \in Devices |-> IF d = "A" /\ enabled THEN 1 ELSE NoTime]
    /\ isSyncing = [d \in Devices |-> FALSE]
    /\ syncError = [d \in Devices |-> NoError]
    /\ passes = [d \in Devices |-> {}]
    /\ clock = [d \in Devices |-> 1]
    /\ deviceId = [d \in Devices |-> IF d = "A" THEN "u1" ELSE "u2"]
    /\ nextId = 2
    /\ net = {}
    /\ srvPrograms = <<>>
    /\ srvWorkouts = <<>>
    /\ srvNow = 1
    /\ lastOp = [op |-> "init", dev |-> "A"]
    /\ script = [d \in Devices |-> Null]
    /\ dirty = [d \in Devices |-> {}]
    /\ mergeLocal = <<>>
    /\ mergeRemote = <<>>
    /\ mergeResult = <<>>
    /\ InitRest

\* the mutations that push, on one device, and their pushes handled (a
\* workout, a deletion) or lost
NextPushes ==
    \/ \E d \in {"A"} :
          \/ AddProgram(d)
          \/ UpdateProgram(d)
          \/ DeleteProgram(d)
          \/ SetActiveProgram(d)
          \/ FinishWorkout(d)
    \/ ServeDeleteProgram
    \/ ServeSaveWorkout
    \/ LoseRequest

SpecPushes == InitPushes /\ [][NextPushes]_vars

\* The page has been loaded again on a device that had synced before: the
\* device holds none, one or both of a program it made (id 1) and a workout it
\* logged (id 2), and the remote store holds none, one or both of them for the
\* device's user; a workout session may be under way (it is persisted).  Sync
\* is off until initSync has probed the server.
LocalProgram == NewProgram([name |-> "n1"], 1, 1)
LocalLog == CompletedWorkout(StartedWorkout(Null, <<>>, 2, 1), "good", 4, 1)
InitReconcile ==
    /\ \E ps \in {<<>>, <<LocalProgram>>}, ws \in {<<>>, <<LocalLog>>} :
          /\ programs = [d \in Devices |-> IF d = "A" THEN ps ELSE <<>>]
          /\ workoutLogs = [d \in Devices |-> IF d = "A" THEN ws ELSE <<>>]
          /\ \E a \in {Null} \cup {ps[i] : i \in DOMAIN ps} :
                activeProgram = [d \in Devices |-> IF d = "A" THEN a ELSE Null]
    /\ \E ps \in {<<>>, <<LocalProgram>>}, ws \in {<<>>, <<LocalLog>>} :
          \E a \in {Null} \cup {ps[i] : i \in DOMAIN ps} :
             LET stored == PushAll(<<>>, <<>>, "u1",
                                   [programs |-> ps, workouts |-> ws,
                                    activeProgram |-> a], 1)
             IN  /\ srvPrograms = stored.programs
                 /\ srvWorkouts = stored.workouts
    /\ \E w \in {Null, StartedWorkout(Null, <<>>, 3, 1)} :
          currentWorkout = [d \in Devices |-> IF d = "A" THEN w ELSE Null]
    /\ syncEnabled = [d \in Devices |-> FALSE]
    /\ lastSynced = [d \in Devices |-> NoTime]
    /\ isSyncing = [d \in Devices |-> FALSE]
    /\ syncError = [d \in Devices |-> NoError]
    /\ passes = [d \in Devices |-> {}]
    /\ clock = [d \in Devices |-> 1]
    /\ deviceId = [d \in Devices |-> IF d = "A" THEN "u1" ELSE "u2"]
    /\ nextId = 4
    /\ net = {}
    /\ srvNow = 1
    /\ lastOp = [op |-> "init", dev |-> "A"]
    /\ script = [d \in Devices |-> Null]
    /\ dirty = [d \in Devices |-> {}]
    /\ mergeLocal = <<>>
    /\ mergeRemote = <<>>
    /\ mergeResult = <<>>
    /\ InitRest

\* initSync and the manual pull on that device, the remote store answering or
\* failing
NextReconcile ==
    \E d \in {"A"} :
          \/ InitSync(d)
          \/ InitSyncProbed(d)
          \/ InitSyncFetched(d)
          \/ InitSyncPushed(d)
          \/ SyncFromServer(d)
          \/ SyncFromServerFetched(d)
          \/ ServeFetch(d)
          \/ FailFetch(d)
          \/ ServePush(d)
          \/ FailPush(d)

SpecReconcile == InitReconcile /\ [][NextReconcile]_vars

\* Device A with sync enabled after addProgram and setActiveProgram of one
\* program, the saveProgram request handled or lost and the set-active
\* request handled
InitLogged ==
    /\ programs = [d \in Devices |-> IF d = "A" THEN <<LocalProgram>> ELSE <<>>]
    /\ activeProgram = [d \in Devices |-> IF d = "A" THEN LocalProgram ELSE Null]
    /\ workoutLogs = [d \in Devices |-> <<>>]
    /\ currentWorkout = [d \in Devices |-> Null]
    /\ \E handled \in BOOLEAN :
          srvPrograms =
              IF handled
              THEN SetActive(UpsertProgram(<<>>, "u1", LocalProgram, 1), "u1", <<1>>, 1)
              ELSE <<>>
    /\ srvWorkouts = <<>>
    /\ syncEnabled = [d \in Devices |-> d = "A"]
    /\ lastSynced = [d \in Devices |-> IF d = "A" THEN 1 ELSE NoTime]
    /\ isSyncing = [d \in Devices |-> FALSE]
    /\ syncError = [d \in Devices |-> NoError]
    /\ passes = [d \in Devices |-> {}]
    /\ clock = [d \in Devices |-> 1]
    /\ deviceId = [d \in Devices |-> IF d = "A" THEN "u1" ELSE "u2"]
    /\ nextId = 2
    /\ net = {}
    /\ srvNow = 1
    /\ lastOp = [op |-> "init", dev |-> "A"]
    /\ script = [d \in Devices |-> Null]
    /\ dirty = [d \in Devices |-> {}]
    /\ mergeLocal = <<>>
    /\ mergeRemote = <<>>
    /\ mergeResult = <<>>
    /\ InitRest

\* workouts started under the active program, the program deleted meanwhile
\* or not, and every push handled or lost
NextLogged ==
    \/ \E d \in {"A"} :
          \/ DeleteProgram(d)
          \/ StartWorkout(d)
          \/ FinishWorkout(d)
    \/ ServeDeleteProgram
    \/ ServeSaveWorkout
    \/ LoseRequest

SpecLogged == InitLogged /\ [][NextLogged]_vars

\* updateProgram and deleteProgram on that device with up to MaxInFlight
\* requests in flight, each of them delivered, in any order
NextRace ==
    \/ \E d \in {"A"} :
          /\ Cardinality(net) < MaxInFlight
          /\ \/ UpdateProgramStore(d)
             \/ DeleteProgramStore(d)
    \/ ServeSaveProgram
    \/ ServeDeleteProgram

\* InitLogged with the program on the remote
InitRace == InitLogged /\ DOMAIN srvPrograms = {LocalProgram.id}

SpecRace == InitRace /\ [][NextRace]_vars

\* InitReconcile with the program both in the list of device A and on the
\* remote
InitDeleted ==
    /\ InitReconcile
    /\ programs["A"] = <<LocalProgram>>
    /\ DOMAIN srvPrograms = {LocalProgram.id}

\* deleteProgram on that device before, during and after its sync calls, the
\* deletion's request handled or lost
NextDeleted ==
    \/ NextReconcile
    \/ \E d \in {"A"} : DeleteProgram(d)
    \/ ServeDeleteProgram
    \/ LoseRequest

SpecDeleted == InitDeleted /\ [][NextDeleted]_vars

\* the Tracker page on one device, sync off: the session and its timers, and
\* programs added and deleted on the Programs page while Tracker is closed
NextTracker ==
    \E d \in {"A"} :
        \/ NavigateToTracker(d)
        \/ NavigateAway(d)
        \/ HandleStartWorkout(d)
        \/ HandleCompleteSet(d)
        \/ StartRestTimer(d)
        \/ SkipRest(d)
        \/ SetRestDuration(d)
        \/ ElapsedTick(d)
        \/ RestTick(d)
        \/ HandleCancel(d)
        \/ HandleFinish(d)
        \/ ~mounted[d] /\ AddProgram(d)
        \/ ~mounted[d] /\ DeleteProgram(d)

SpecTracker == Init /\ [][NextTracker]_vars

---------------------------------------------------------------------------
(* Claims *)

SessionOps == {"startWorkout", "updateCurrentWorkout", "completeSet",
               "uncompleteSet", "cancelWorkout"}
LastLog(d) == workoutLogs[d][Len(workoutLogs[d])]

PassEnds == {"initSyncDone", "syncToServerDone", "syncFromServerDone"}
ItemsWithId(s, id) == {s[i] : i \in {j \in DOMAIN s : s[j].id = id}}
ActiveRows(userId) ==
    {i \in DOMAIN srvPrograms :
        srvPrograms[i].user_id = userId /\ srvPrograms[i].is_active}

\* a blob that cannot be parsed to an object, or whose programs or
\* workoutLogs is not a list
Malformed(data) ==
    \/ data.parse # "object"
    \/ data.programs.kind # "array"
    \/ data.workoutLogs.kind # "array"

\* C12: importData on a blob that is not parseable, or that lacks a programs
\* collection or a workoutLogs collection, returns false and leaves programs,
\* activeProgram, workoutLogs and chatMessages exactly as they were.
C12_MalformedRejected ==
    [][\A d \in Devices :
          (lastOp'.op = "importData" /\ lastOp'.dev = d /\ Malformed(lastOp'.data)) =>
              /\ ~lastOp'.returned
              /\ programs'[d] = programs[d]
              /\ activeProgram'[d] = activeProgram[d]
              /\ workoutLogs'[d] = workoutLogs[d]
              /\ chatMessages'[d] = chatMessages[d]
              /\ notArray'[d] = notArray[d]
      ]_vars

\* C13: for every reachable store state, importData(exportData()) returns
\* true and leaves programs, activeProgram and workoutLogs equal to what
\* they were before the export (a log's key whose value was undefined is
\* not in the text, and reads as undefined afterwards as it did before).
C13_RoundTrip ==
    [][\A d \in Devices :
          (lastOp'.op = "importData" /\ lastOp'.dev = d
              /\ lastOp'.data = exportData(d)) =>
              /\ lastOp'.returned
              /\ programs'[d] = programs[d]
              /\ activeProgram'[d] = activeProgram[d]
              /\ JsonLogs(workoutLogs'[d]) = JsonLogs(workoutLogs[d])
              /\ notArray'[d] \ {"chatMessages"} = notArray[d] \ {"chatMessages"}
      ]_vars
\* an export of lists made on the device, one log without a program, imported
C13_Witness ==
    /\ lastOp.op = "importData" /\ lastOp.dev = "A" /\ lastOp.returned
    /\ lastOp.data = exportData("A")
    /\ activeProgram["A"] # Null
    /\ \E i \in DOMAIN programs["A"] : programs["A"][i].id > 0
    /\ \E i \in DOMAIN workoutLogs["A"] :
          workoutLogs["A"][i].id > 0 /\ "programId" \notin DOMAIN workoutLogs["A"][i]

\* C14: in an active session, completeSet(id, r, w, rpe) followed by
\* uncompleteSet(id) followed by completeSet(id, r, w, rpe) leaves the named
\* set and the whole current workout as a single completeSet(id, r, w, rpe)
\* leaves them, from every current workout the session operations reach.
C14_ToggleIsComplete ==
    \A d \in Devices :
        currentWorkout[d] # Null =>
            \A setId \in KnownIds(currentWorkout[d].sets),
               r \in Reps, w \in Weights, rpe \in Rpes :
                LET once == AfterCompleteSet(currentWorkout[d], setId, r, w, rpe)
                IN  AfterCompleteSet(AfterUncompleteSet(once, setId), setId, r, w, rpe)
                        = once
\* a session in which one set was completed and uncompleted, and a set has
\* just been completed
C14_Witness ==
    /\ lastOp.op = "completeSet" /\ lastOp.dev = "A"
    /\ currentWorkout["A"] # Null
    /\ \E i, j \in DOMAIN currentWorkout["A"].sets :
          LET s1 == currentWorkout["A"].sets[i]
              s2 == currentWorkout["A"].sets[j]
          IN  /\ s1.completed /\ "actualReps" \in DOMAIN s1
              /\ ~s2.completed /\ "actualReps" \in DOMAIN s2

\* C15: after every store mutation returns, the durable copy holds the
\* post-mutation programs, activeProgram, workoutLogs, conversations,
\* activeConversationId and currentWorkout, so a restart after a crash at any
\* point restores the state after the last completed mutation (up to keys
\* whose value was undefined); the sync flags restart at their initial values.
C15_CrashSafe ==
    [][\A d \in Devices :
          /\ durable'[d] = JsonState(Partialize(d)')
          /\ (lastOp'.op = "restart" /\ lastOp'.dev = d) =>
                /\ programs'[d] = programs[d]
                /\ activeProgram'[d] = activeProgram[d]
                /\ JsonLogs(workoutLogs'[d]) = JsonLogs(workoutLogs[d])
                /\ conversations'[d] = conversations[d]
                /\ activeConversationId'[d] = activeConversationId[d]
                /\ JsonWorkout(currentWorkout'[d]) = JsonWorkout(currentWorkout[d])
                /\ ~syncEnabled'[d] /\ ~isSyncing'[d]
                /\ lastSynced'[d] = NoTime /\ syncError'[d] = NoError
      ]_vars
\* a restart with a program, a conversation and a session in progress
C15_Witness ==
    /\ lastOp.op = "restart" /\ lastOp.dev = "A"
    /\ programs["A"] # <<>>
    /\ conversations["A"] # <<>>
    /\ currentWorkout["A"] # Null
    /\ ~syncEnabled["A"] /\ lastSynced["A"] = NoTime

\* the request m carries what the mutation op of device d left behind
PushOps == {"addProgram", "updateProgram", "deleteProgram", "setActiveProgram",
            "finishWorkout"}
Carries(m, d, op) ==
    /\ m.user = deviceId[d]
    /\ CASE op.op = "addProgram" ->
               /\ m.type = "saveProgram"
               /\ m.program = programs'[d][Len(programs'[d])]
         [] op.op = "updateProgram" ->
               /\ m.type = "saveProgram"
               /\ m.program.id = op.id
               /\ m.program \in Range(programs'[d])
         [] op.op = "deleteProgram" ->
               /\ m.type = "deleteProgram"
               /\ m.pid[1] \notin IdsOf(programs'[d])
         [] op.op = "setActiveProgram" ->
               /\ m.type = "setActive"
               /\ m.pid = IdOrNull(activeProgram'[d])
         [] op.op = "finishWorkout" ->
               /\ m.type = "saveWorkout"
               /\ m.workout = workoutLogs'[d][Len(workoutLogs'[d])]

\* C16: with sync enabled each addProgram, updateProgram of an existing id,
\* deleteProgram, setActiveProgram and finishWorkout (of a session) sends
\* exactly one request, which carries the entity as the mutation left it;
\* with sync disabled none sends anything; and a push that fails leaves the
\* local state as the mutation left it.
C16_OnePushPerMutation ==
    [][\A d \in Devices :
          /\ (/\ lastOp'.dev = d /\ lastOp'.op \in PushOps
              /\ lastOp'.op = "updateProgram" => lastOp'.id \in IdsOf(programs[d])
              /\ lastOp'.op = "finishWorkout" => currentWorkout[d] # Null) =>
                 IF syncEnabled[d]
                 THEN /\ net \subseteq net'
                      /\ \E m \in net' : net' \ net = {m} /\ Carries(m, d, lastOp')
                 ELSE net' = net
          /\ lastOp'.op = "loseRequest" =>
                 /\ programs'[d] = programs[d]
                 /\ activeProgram'[d] = activeProgram[d]
                 /\ workoutLogs'[d] = workoutLogs[d]
                 /\ currentWorkout'[d] = currentWorkout[d]
      ]_vars

\* the rows of the remote store without the write stamp updated_at
Stored(tables) ==
    [programs |-> [i \in DOMAIN tables.programs |->
                      [f \in (DOMAIN tables.programs[i]) \ {"updated_at"} |->
                          tables.programs[i][f]]],
     workouts |-> tables.workouts]

\* C17: the same push-all request, or the same single program or workout
\* upsert, handled twice in a row leaves the remote store with the same
\* programs, workouts, nested days and sets and active program as handled
\* once, whatever the store held before.
C17_ResendHarmless ==
    \A m \in ResendRequests("u1"), now1 \in SrvNowSet :
        \A now2 \in {t \in now1..MaxTime : t <= now1 + 1} :
            LET once == Handled([programs |-> srvPrograms, workouts |-> srvWorkouts],
                                m, now1)
            IN  Stored(Handled(once, m, now2)) = Stored(once)

\* the call of initSync on device d that resumes after its fetch in this step
ResumedInitSync(d) ==
    {q \in passes[d] \ passes'[d] : q.op = "initSync" /\ q.pc = "fetched" /\ q.data # Null}

\* the push-alls call q of device d has in flight after this step
PushesOf(d, q) == {r \in passes'[d] : r.k = q.k /\ r.pc = "push"}

LocalKept(d) ==
    /\ programs'[d] = programs[d]
    /\ activeProgram'[d] = activeProgram[d]
    /\ workoutLogs'[d] = workoutLogs[d]

\* C18: when initSync's fetch has succeeded: with remote data and no local
\* data the local programs, active program and workout logs become the fetched
\* snapshot and nothing is pushed; with local data and no remote data the local
\* state is kept and one push-all with all local programs, workout logs and the
\* active program is sent, and nothing local changes when it returns; with
\* neither, neither side changes.
C18_InitSyncCases ==
    [][\A d \in Devices :
          /\ \A q \in ResumedInitSync(d) :
                LET hasLocalData == Len(programs[d]) > 0 \/ Len(workoutLogs[d]) > 0
                    hasServerData == Len(q.data.programs) > 0 \/ Len(q.data.workouts) > 0
                IN  /\ (hasServerData /\ ~hasLocalData) =>
                          /\ programs'[d] = q.data.programs
                          /\ activeProgram'[d] = q.data.activeProgram
                          /\ workoutLogs'[d] = q.data.workouts
                          /\ PushesOf(d, q) = {}
                          /\ net' = net
                          /\ UNCHANGED srvVars
                    /\ (hasLocalData /\ ~hasServerData) =>
                          /\ LocalKept(d)
                          /\ Cardinality(PushesOf(d, q)) = 1
                          /\ \A r \in PushesOf(d, q) :
                                r.body = [programs |-> programs[d],
                                          workouts |-> workoutLogs[d],
                                          activeProgram |-> activeProgram[d]]
                    /\ (~hasLocalData /\ ~hasServerData) =>
                          /\ LocalKept(d)
                          /\ PushesOf(d, q) = {}
                          /\ net' = net
                          /\ UNCHANGED srvVars
          /\ \A q \in passes[d] \ passes'[d] :
                (q.op = "initSync" /\ q.pc = "pushed" /\ q.branch = "local") =>
                    LocalKept(d) /\ PushesOf(d, q) = {} /\ net' = net
      ]_vars

\* initSync has adopted a remote snapshot with a program and a workout
C18_Witness ==
    /\ lastOp.op = "initSyncDone" /\ lastOp.branch = "server"
    /\ Len(programs["A"]) = 1 /\ Len(workoutLogs["A"]) = 1
    /\ activeProgram["A"] # Null

\* the call of syncFromServer on device d that resumes after a successful
\* fetch in this step
ResumedPull(d) ==
    {q \in passes[d] \ passes'[d] :
        q.op = "syncFromServer" /\ q.pc = "fetched" /\ q.data # Null}

\* C19: after a successful syncFromServer the programs, active program and
\* workout logs are the fetched snapshot, no program or log that was only on
\* the device is left, and currentWorkout is what it was.
C19_PullOverwrites ==
    [][\A d \in Devices : \A q \in ResumedPull(d) :
          /\ programs'[d] = q.data.programs
          /\ activeProgram'[d] = q.data.activeProgram
          /\ workoutLogs'[d] = q.data.workouts
          /\ \A id \in (IdsOf(programs[d]) \cup IdsOf(workoutLogs[d]))
                        \ (IdsOf(q.data.programs) \cup IdsOf(q.data.workouts)) :
                id \notin IdsOf(programs'[d]) \cup IdsOf(workoutLogs'[d])
          /\ currentWorkout'[d] = currentWorkout[d]
      ]_vars

\* a pull has replaced the lists of a device that held a program the remote
\* store had not, during a workout session
C19_Witness ==
    /\ lastOp.op = "syncFromServerDone" /\ ~lastOp.failed
    /\ 1 \in lastOp.lost
    /\ Len(workoutLogs["A"]) = 1
    /\ currentWorkout["A"] # Null

\* the two periodic callbacks of a session
Ticks == {"elapsedTick", "restTick"}

\* C20: once currentWorkout is null, after cancelWorkout or a program
\* deletion at any point of a session, the rest timer is inactive and neither
\* the elapsed-time tick nor the rest-timer tick fires.
C20_TimersStopWithSession ==
    [][\A d \in Devices :
          /\ currentWorkout'[d] = Null => ~restTimerActive'[d]
          /\ (currentWorkout[d] = Null /\ lastOp'.dev = d) => lastOp'.op \notin Ticks
      ]_vars

\* the fields completeSet writes on the set it names
Actuals == {"actualReps", "actualWeight", "rpe", "completed"}

\* records a and b agree outside the fields F
SameExcept(a, b, F) ==
    /\ (DOMAIN a) \ F = (DOMAIN b) \ F
    /\ \A f \in (DOMAIN a) \ F : a[f] = b[f]

\* C21: during a workout completeSet(setId, ...) and uncompleteSet(setId) keep
\* the number and order of the sets, every set with another id and every other
\* field of currentWorkout; completeSet sets completed and the given actuals on
\* the named set, uncompleteSet only clears its completed flag; a setId that
\* names no set changes nothing.
C21_OnlyNamedSet ==
    [][\A d \in Devices :
          (/\ lastOp'.op \in {"completeSet", "uncompleteSet"}
           /\ lastOp'.dev = d
           /\ currentWorkout[d] # Null) =>
              LET w == currentWorkout[d]
                  v == currentWorkout'[d]
                  setId == lastOp'.setId
              IN  /\ v # Null
                  /\ SameExcept(w, v, {"sets"})
                  /\ DOMAIN v.sets = DOMAIN w.sets
                  /\ \A i \in DOMAIN w.sets :
                        IF w.sets[i].id # setId THEN v.sets[i] = w.sets[i]
                        ELSE IF lastOp'.op = "completeSet"
                        THEN /\ SameExcept(w.sets[i], v.sets[i], Actuals)
                             /\ v.sets[i].completed
                             /\ v.sets[i].actualReps = lastOp'.actualReps
                             /\ v.sets[i].actualWeight = lastOp'.actualWeight
                             /\ v.sets[i].rpe = lastOp'.rpe
                        ELSE /\ SameExcept(w.sets[i], v.sets[i], {"completed"})
                             /\ ~v.sets[i].completed
                  /\ setId \notin IdsOf(w.sets) => v = w
      ]_vars

\* uncompleteSet has cleared the flag of one of two sets and left its actuals
C21_Witness ==
    /\ lastOp.op = "uncompleteSet"
    /\ currentWorkout["A"] # Null
    /\ Len(currentWorkout["A"].sets) = 2
    /\ \E i, j \in DOMAIN currentWorkout["A"].sets :
          /\ currentWorkout["A"].sets[i].id = lastOp.setId
          /\ ~currentWorkout["A"].sets[i].completed
          /\ "actualReps" \in DOMAIN currentWorkout["A"].sets[i]
          /\ currentWorkout["A"].sets[j].completed

\* the ids a device holds: of its programs, logs, session and their sets
HeldIds(d) ==
    IdsOf(programs[d]) \cup IdsOf(workoutLogs[d])
    \cup UNION {IdsOf(workoutLogs[d][i].sets) : i \in DOMAIN workoutLogs[d]}
    \cup (IF currentWorkout[d] = Null THEN {}
          ELSE {currentWorkout[d].id} \cup IdsOf(currentWorkout[d].sets))

\* C22: startWorkout(programId, dayId, prescribed) sets currentWorkout to a
\* log with a fresh id and completed = false whose sets are the prescribed
\* sets in their order, each with a fresh id, all ids pairwise distinct and
\* none a template id, and completed = false whatever the template said;
\* during a workout it replaces the workout under way, and workoutLogs is
\* unchanged.
C22_StartReplaces ==
    [][\A d \in Devices :
          (lastOp'.op = "startWorkout" /\ lastOp'.dev = d) =>
              LET v == currentWorkout'[d]
                  prescribed == lastOp'.sets
                  newIds == {v.id} \cup IdsOf(v.sets)
              IN  /\ v # Null
                  /\ ~v.completed
                  /\ Len(v.sets) = Len(prescribed)
                  /\ \A i \in DOMAIN prescribed :
                        /\ SameExcept(prescribed[i], v.sets[i], {"id", "completed"})
                        /\ ~v.sets[i].completed
                  /\ Cardinality(newIds) = Len(prescribed) + 1
                  /\ newIds \cap (HeldIds(d) \cup IdsOf(prescribed)) = {}
                  /\ workoutLogs'[d] = workoutLogs[d]
      ]_vars

\* a workout was started from two prescribed sets, one marked completed,
\* while another workout was under way
C22_Witness ==
    /\ lastOp.op = "startWorkout"
    /\ Len(lastOp.sets) = 2
    /\ \E i \in DOMAIN lastOp.sets : lastOp.sets[i].completed
    /\ lastOp.sets[1].exerciseName # lastOp.sets[2].exerciseName
    /\ currentWorkout["A"].id > 1
    /\ script["A"] = Null

\* the places of a list of logs, most recent first, where the calendar-day
\* gap to the next log is more than two days
StreakBreaks(s) == {i \in 1..(Len(s) - 1) : DayOf(s[i].date) - DayOf(s[i + 1].date) > 2}

\* the length of the run that starts at the most recent log
FirstRun(s) ==
    IF s = <<>> THEN 0
    ELSE IF StreakBreaks(s) = {} THEN Len(s)
    ELSE CHOOSE i \in StreakBreaks(s) : \A j \in StreakBreaks(s) : i <= j

\* the lengths of the stretches of s without a break
RunLengths(s) ==
    UNION {{j - i + 1 : j \in {k \in DOMAIN s :
                                 k >= i /\ StreakBreaks(s) \cap i..(k - 1) = {}}} :
           i \in DOMAIN s}

LongestRun(s) ==
    IF s = <<>> THEN 0 ELSE CHOOSE n \in RunLengths(s) : \A m \in RunLengths(s) : n >= m

\* C23: getStats().currentStreak is the length of the run of completed logs
\* that starts at the most recent one and ends before the first gap of more
\* than two calendar days; longestStreak is the greatest length of such a run;
\* both are zero when no log is completed.
C23_Streaks ==
    lastOp.op = "getStats" =>
        LET s == SortedByDate(CompletedLogs(workoutLogs[lastOp.dev]))
        IN  /\ stats.currentStreak = FirstRun(s)
            /\ stats.longestStreak = LongestRun(s)

\* the messages of the conversation activeConversationId names
ActiveMessages(d) ==
    LET i == IF activeConversationId[d] = Null THEN 0
             ELSE FirstIndex(conversations[d], activeConversationId[d][1])
    IN  IF i = 0 THEN <<>> ELSE conversations[d][i].messages

\* C24: in every state chatMessages is the list of messages of the active
\* conversation, empty when none is active, and activeConversationId is null
\* or the id of a conversation of the store.
C24_ChatDerived ==
    \A d \in Devices :
        /\ "chatMessages" \notin notArray[d]
        /\ chatMessages[d] = ActiveMessages(d)
        /\ activeConversationId[d] # Null =>
               activeConversationId[d][1] \in IdsOf(conversations[d])

\* C25: a program or workout upsert, push-all, delete or set-active request
\* of one device identity leaves what GET /all returns to every other device
\* identity unchanged, also when both use the same entity id.
C25_OwnersIsolated ==
    [][\A m \in net :
          net' = net \ {m} =>
              \A userId \in Users \ {m.user} : FetchAll(userId)' = FetchAll(userId)
      ]_vars

\* C26: on every device, when activeProgram is not null the programs list
\* holds a program with the same id and the same field values.
C26_ActiveInPrograms ==
    \A d \in Devices :
        activeProgram[d] # Null =>
            \E i \in DOMAIN programs[d] : programs[d][i] = activeProgram[d]

\* C27: handling a saveProgram request does not change the active program
\* fetch-all reports: a program reported active before the request is handled
\* is the one reported active after it.
C27_PushKeepsActive ==
    [][lastOp'.op = "serveSaveProgram" =>
          \A userId \in Users : \A before \in FetchAll(userId) :
              before.activeProgram # Null =>
                  \A after \in FetchAll(userId)' :
                      /\ after.activeProgram # Null
                      /\ after.activeProgram.id = before.activeProgram.id
      ]_vars

\* C28: when the remote has handled the saveWorkout request of a finished
\* workout, it stores the log with all its sets and every fetch-all of that
\* device identity returns it.
C28_FinishedReachesRemote ==
    [][\A m \in net :
          (m.type = "saveWorkout" /\ net' = net \ {m}
              /\ lastOp'.op = "serveSaveWorkout") =>
              /\ m.workout.id \in DOMAIN srvWorkouts'
              /\ IdsOf(srvWorkouts'[m.workout.id].sets) = IdsOf(m.workout.sets)
              /\ \A r \in FetchAll(m.user)' : m.workout.id \in IdsOf(r.workouts)
      ]_vars

\* C29: once every request of the device has been handled, the remote holds
\* the device's programs as its last updateProgram or deleteProgram left
\* them: each program of the list with its name, and no program that the
\* device deleted.
C29_RemoteIsLatest ==
    (net = {} /\ lastOp.op \in {"serveSaveProgram", "serveDeleteProgram"}) =>
        /\ \A i \in DOMAIN programs["A"] :
              /\ programs["A"][i].id \in DOMAIN srvPrograms
              /\ srvPrograms[programs["A"][i].id].name = programs["A"][i].name
        /\ DOMAIN srvPrograms \subseteq IdsOf(programs["A"])

\* C30: a program that is no longer in the list of device A is not put back
\* by any later step.  Under SpecDeleted the list and the remote hold the
\* program at first, and neither loses it before deleteProgram has removed it
\* from the list.
C30_DeletedStaysDeleted ==
    [][LocalProgram.id \notin IdsOf(programs["A"]) =>
          LocalProgram.id \notin IdsOf(programs["A"])']_vars

\* C1: the result of mergeData(local, remote, field) has exactly one entry for
\* every id of local or remote and no other id; an id of one side only keeps an
\* entity of that side; an id of both sides keeps an entity of the greatest
\* recency, and the remote one unless a local one is strictly more recent (so
\* on equal recency the same side, the remote, every time).
C1_MergeRule ==
    lastOp.op = "mergeData" =>
        LET f == FieldOf(mergeLocal \o mergeRemote)
        IN  /\ IdsOf(mergeResult) = IdsOf(mergeLocal) \cup IdsOf(mergeRemote)
            /\ DistinctIds(mergeResult)
            /\ \A k \in DOMAIN mergeResult :
                  LET e == mergeResult[k]
                      L == ItemsWithId(mergeLocal, e.id)
                      R == ItemsWithId(mergeRemote, e.id)
                  IN  /\ e \in L \cup R
                      /\ R = {} => e \in L
                      /\ L = {} => e \in R
                      /\ \A x \in L \cup R : e[f] >= x[f]
                      /\ (R # {} /\ \A x \in L : \A y \in R : x[f] <= y[f]) => e \in R
                      /\ (\E x \in L : \A y \in R : x[f] > y[f]) => e \in L

\* mergeData has run on arrays that share two ids: for one the local entity is
\* strictly more recent, for the other the two differ and are equally recent
C1_Witness ==
    /\ lastOp.op = "mergeData"
    /\ \E i \in DOMAIN mergeLocal, j \in DOMAIN mergeRemote :
          /\ mergeLocal[i].id = mergeRemote[j].id
          /\ "updatedAt" \in DOMAIN mergeLocal[i]
          /\ mergeLocal[i].updatedAt > mergeRemote[j].updatedAt
    /\ \E i \in DOMAIN mergeLocal, j \in DOMAIN mergeRemote :
          /\ mergeLocal[i].id = mergeRemote[j].id
          /\ "updatedAt" \in DOMAIN mergeLocal[i]
          /\ mergeLocal[i].updatedAt = mergeRemote[j].updatedAt
          /\ mergeLocal[i].name # mergeRemote[j].name

\* C2: device A has pushed P1 (updatedAt T1) and device B, without pulling, has
\* then pushed P1' (same id, updatedAt T2 > T1); whenever an initSync of either
\* device has then completed, that device's programs list and the remote store
\* both hold P1' (here: the name "n2") for that id.
C2_ConvergesOnNewer ==
    \A d \in Devices :
        (lastOp.op = "initSyncDone" /\ lastOp.dev = d /\ ~lastOp.failed) =>
            /\ FindById(programs[d], 1) # Null
            /\ FindById(programs[d], 1).name = "n2"
            /\ 1 \in DOMAIN srvPrograms
            /\ srvPrograms[1].name = "n2"

\* C3: at most one sync call of a device awaits the remote store at any time,
\* and while one does, isSyncing is true.
C3_OnePassInFlight ==
    \A d \in Devices :
        /\ Cardinality(InFlight(d)) <= 1
        /\ InFlight(d) # {} => isSyncing[d]

\* C4: a program or log added or changed locally while a push or pull of the
\* device awaits the remote store is still in the local lists when the call
\* in flight completes.
C4_MutationSurvivesPass ==
    [][\A d \in Devices :
          (lastOp'.dev = d /\ lastOp'.op \in PassEnds) =>
              dirty[d] \subseteq IdsOf(programs'[d]) \cup IdsOf(workoutLogs'[d])
      ]_vars

\* C5: when the fetch-all or push-all of a sync call fails in transport, the
\* call ends with syncError non-null and lastSynced not advanced, and with
\* programs, activeProgram and workoutLogs as they were.
C5_TransportFailureFlagged ==
    [][\A d \in Devices :
          (lastOp'.dev = d /\ lastOp'.op \in PassEnds /\ lastOp'.failed) =>
              /\ syncError'[d] # NoError
              /\ lastSynced'[d] = lastSynced[d]
              /\ programs'[d] = programs[d]
              /\ activeProgram'[d] = activeProgram[d]
              /\ workoutLogs'[d] = workoutLogs[d]
      ]_vars

\* C7: after any sequence of program upsert, push-all, set-active and delete
\* requests of one user, at most one program of that user is marked active in
\* the remote store.
C7_OneActivePerUser ==
    \A u \in Users : Cardinality(ActiveRows(u)) <= 1

IdleOps == {"updateCurrentWorkout", "completeSet", "uncompleteSet", "finishWorkout",
            "cancelWorkout"}

\* C11: when currentWorkout is null, each of updateCurrentWorkout, completeSet,
\* uncompleteSet, finishWorkout and cancelWorkout leaves currentWorkout null and
\* workoutLogs unchanged, and sends no request to the remote store.
C11_IdleNoOp ==
    [][\A d \in Devices :
          (currentWorkout[d] = Null /\ lastOp'.dev = d /\ lastOp'.op \in IdleOps) =>
              /\ currentWorkout'[d] = Null
              /\ workoutLogs'[d] = workoutLogs[d]
              /\ net' = net
      ]_vars

\* with sync enabled, finishWorkout has been called with no current workout
\* and no workout logged so far
C11_Witness ==
    /\ syncEnabled["A"]
    /\ lastOp.op = "finishWorkout"
    /\ lastOp.dev = "A"
    /\ workoutLogs["A"] = <<>>
    /\ currentWorkout["A"] = Null

\* C6: for every sequence of addProgram, updateProgram (any partial Program),
\* deleteProgram and setActiveProgram, no two programs of the list share an id,
\* and at most one program of the list is the active one.
C6_UniqueProgramIds ==
    \A d \in Devices :
        /\ \A i, j \in DOMAIN programs[d] :
              i # j => programs[d][i].id # programs[d][j].id
        /\ activeProgram[d] # Null =>
              Cardinality({i \in DOMAIN programs[d] :
                             programs[d][i].id = activeProgram[d].id}) <= 1

\* C8: in every state the session operations reach, every entry of workoutLogs
\* is completed, and currentWorkout, when there is one, is not completed and has
\* an id that no entry of workoutLogs has.
C8_SingleIncompleteLog ==
    \A d \in Devices :
        /\ \A i \in DOMAIN workoutLogs[d] : workoutLogs[d][i].completed
        /\ currentWorkout[d] # Null =>
              /\ ~currentWorkout[d].completed
              /\ currentWorkout[d].id \notin IdsOf(workoutLogs[d])

\* C9: from Idle, startWorkout with n prescribed sets, completeSet once for each
\* set (in any order), then finishWorkout: one log is appended, it is completed,
\* has exactly n sets, every set is completed, and currentWorkout is null.
C9_FullSessionLogged ==
    \A d \in Devices :
        (script[d] # Null /\ script[d].fin /\ script[d].called = script[d].ids) =>
            /\ currentWorkout[d] = Null
            /\ Len(workoutLogs[d]) = Len(script[d].base) + 1
            /\ LastLog(d).completed
            /\ Len(LastLog(d).sets) = script[d].n
            /\ \A i \in DOMAIN LastLog(d).sets : LastLog(d).sets[i].completed

\* a session of two prescribed sets, both completed, has just been finished
C9_Witness ==
    /\ script["A"] # Null
    /\ script["A"].fin
    /\ script["A"].n >= 2
    /\ script["A"].called = script["A"].ids

\* C10: startWorkout, updateCurrentWorkout, completeSet, uncompleteSet and
\* cancelWorkout leave workoutLogs unchanged; finishWorkout with a current
\* workout appends exactly one entry, with the current workout's id, at the end
\* and changes no earlier entry.
C10_OnlyFinishAppends ==
    [][\A d \in Devices :
          /\ (lastOp'.dev = d /\ lastOp'.op \in SessionOps) =>
                workoutLogs'[d] = workoutLogs[d]
          /\ (lastOp'.dev = d /\ lastOp'.op = "finishWorkout" /\ currentWorkout[d] # Null) =>
                /\ Len(workoutLogs'[d]) = Len(workoutLogs[d]) + 1
                /\ SubSeq(workoutLogs'[d], 1, Len(workoutLogs[d])) = workoutLogs[d]
                /\ workoutLogs'[d][Len(workoutLogs'[d])].id = currentWorkout[d].id
      ]_vars

\* finishWorkout has appended a second entry behind an earlier one
C10_Witness ==
    /\ lastOp.op = "finishWorkout"
    /\ Len(workoutLogs["A"]) = 2
    /\ currentWorkout["A"] = Null

\* one device adding programs and running its three sync calls against the
\* remote store
Next ==
    \/ \E d \in {"A"} :
          \/ AddProgram(d)
          \/ InitSync(d)
          \/ InitSyncProbed(d)
          \/ InitSyncFetched(d)
          \/ InitSyncPushed(d)
          \/ SyncToServer(d)
          \/ SyncToServerPushed(d)
          \/ SyncFromServer(d)
          \/ SyncFromServerFetched(d)
          \/ ServeFetch(d)
          \/ FailFetch(d)
          \/ ServePush(d)
          \/ FailPush(d)
    \/ ServeSaveProgram
    \/ LoseRequest

Spec == Init /\ [][Next]_vars

===========================================================================
